---------------------------- MODULE Spec2Model ----------------------------
(***************************************************************************)
(* A model of nufmt's formatting engine (src/src/formatting.rs).           *)
(*                                                                         *)
(* One formatting call is a depth-first walk of the parsed program that    *)
(* appends bytes to an output buffer.  The walk is modelled as a state     *)
(* machine: the fields of the Rust `Formatter` are the variables, and the  *)
(* recursion of format_block / format_pipeline / format_expression is      *)
(* kept on an explicit stack of pending calls, so that every write, every  *)
(* newline and every comment emission is one step.                         *)
(*                                                                         *)
(* Bytes are one-character strings, byte buffers are sequences of them.    *)
(* Source offsets are 0-based as in Rust, so source[a..b] is               *)
(* SubSeq(source, a + 1, b).                                               *)
(***************************************************************************)
EXTENDS Integers, Sequences, FiniteSets, TLC

\* ------------------------------------------------------------------------
\* Bounds of the model
\* ------------------------------------------------------------------------

\* widest run of blanks between two tokens of an input
MaxGap == 2
\* largest number of items of an input list
MaxItems == 6
\* largest config.indent tried
MaxIndent == 2
\* largest number of newline bytes of a blank input
MaxBlank == 2
\* largest number of comment lines already standing in a def body
MaxBodyComments == 1
MaxSource == 6
MaxOutput == 3
\* largest number of paths on a command line
MaxPaths == 2
\* largest integer tried as the value of a configuration option
MaxOption == 2

\* ------------------------------------------------------------------------
\* Bytes
\* ------------------------------------------------------------------------

NL == "\n"
SP == " "
TAB == "\t"
DQ == "\""
SQ == "'"
BSL == "\\"
HASH == "#"

Spaces(n) == [i \in 1..n |-> SP]

RECURSIVE Flatten(_)
Flatten(ss) == IF ss = <<>> THEN <<>> ELSE Head(ss) \o Flatten(Tail(ss))

RECURSIVE Repeat(_, _)
Repeat(s, n) == IF n = 0 THEN <<>> ELSE s \o Repeat(s, n - 1)

Last(s) == s[Len(s)]

\* ------------------------------------------------------------------------
\* nu_protocol's Span and the syntax tree handed over by nu_parser::parse
\* ------------------------------------------------------------------------

Span(a, b) == [start |-> a, end |-> b]

None == [none |-> TRUE]

\* Expr variants that carry nothing the formatter reads besides the span
Leaf(kind, span) == [kind |-> kind, span |-> span]

Call(decl_name, span, head, arguments) ==
    [kind |-> "Call", span |-> span, decl_name |-> decl_name, head |-> head,
     arguments |-> arguments]

Positional(e) == [arg |-> "Positional", expr |-> e]

ExternalCall(span, head, args) ==
    [kind |-> "ExternalCall", span |-> span, head |-> head, args |-> args]

Regular(e) == [arg |-> "Regular", expr |-> e]

BinaryOp(span, lhs, op, rhs) ==
    [kind |-> "BinaryOp", span |-> span, lhs |-> lhs, op |-> op, rhs |-> rhs]

\* Block, Closure and Subexpression hold a BlockId; working_set.get_block(id)
\* is the block itself here
BlockRef(kind, span, block) == [kind |-> kind, span |-> span, block |-> block]

List(span, items) == [kind |-> "List", span |-> span, items |-> items]

Item(e) == [item |-> "Item", expr |-> e]

Record(span, items) == [kind |-> "Record", span |-> span, items |-> items]

Pair(key, value) == [item |-> "Pair", key |-> key, value |-> value]

FullCellPath(span, head, tail) ==
    [kind |-> "FullCellPath", span |-> span, head |-> head, tail |-> tail]

Keyword(span, keyword_span, e) ==
    [kind |-> "Keyword", span |-> span, keyword |-> keyword_span, expr |-> e]

\* matches is a sequence of (MatchPattern, Expression) pairs
MatchBlock(span, matches) ==
    [kind |-> "MatchBlock", span |-> span, matches |-> matches]

\* Pattern variants the formatter copies from the source or writes as a
\* fixed text
MatchPattern(pattern, span) == [pattern |-> pattern, span |-> span]

\* from, next and to are expressions or None; operator is a span
Range(span, from, next, operator, to) ==
    [kind |-> "Range", span |-> span, from |-> from, next |-> next,
     operator |-> operator, to |-> to]

Element(e) == [expr |-> e, redirection |-> None]

Pipeline(elements) == [elements |-> elements]

Block(pipelines) == [pipelines |-> pipelines]

\* a block of one pipeline of one element
Single(e) == Block(<<Pipeline(<<Element(e)>>)>>)

\* ------------------------------------------------------------------------
\* extract_comments
\* ------------------------------------------------------------------------

\* a line end that takes in the newline
line_end_after_newline(src, i) ==
    IF \E k \in (i + 1)..Len(src) : src[k] = NL
      THEN CHOOSE k \in (i + 1)..Len(src) :
             src[k] = NL /\ \A j \in (i + 1)..(k - 1) : src[j] # NL
      ELSE Len(src)

\* the inner `while i < source.len() && source[i] != b'\n'` loop; i is 0-based
RECURSIVE line_end_from(_, _)
line_end_from(src, i) ==
    IF i < Len(src) /\ src[i + 1] # NL THEN line_end_from(src, i + 1) ELSE i

RECURSIVE scan_comments(_, _, _, _, _)
scan_comments(src, i, in_string, string_char, acc) ==
    IF ~(i < Len(src)) THEN acc
    ELSE LET c == src[i + 1] IN
         IF ~in_string /\ (c = DQ \/ c = SQ)
           THEN scan_comments(src, i + 1, TRUE, c, acc)
         ELSE IF in_string
           THEN IF c = BSL /\ i + 1 < Len(src)
                  THEN scan_comments(src, i + 2, in_string, string_char, acc)
                ELSE scan_comments(src, i + 1,
                                   IF c = string_char THEN FALSE ELSE in_string,
                                   string_char, acc)
         ELSE IF c = HASH
           THEN LET e == line_end_from(src, i) IN
                scan_comments(src, e + 1, in_string, string_char,
                              Append(acc, [span |-> Span(i, e),
                                           content |-> SubSeq(src, i + 1, e)]))
         ELSE scan_comments(src, i + 1, in_string, string_char, acc)

extract_comments(src) == scan_comments(src, 0, FALSE, DQ, <<>>)

\* ------------------------------------------------------------------------
\* The state of one run: the input, the Formatter, and the pending calls
\* ------------------------------------------------------------------------

VARIABLES
    source,            \* Formatter.source: the bytes being formatted
    parsed_block,      \* the block nu_parser::parse returned for source
    indent,            \* config.indent
    pc,                \* "start", "walk" or "done": where format_inner stands
    result,            \* "none", "Ok" or "GarbageFound"
    output,            \* Formatter.output
    indent_level,      \* Formatter.indent_level
    at_line_start,     \* Formatter.at_line_start
    comments,          \* Formatter.comments
    written_comments,  \* Formatter.written_comments
    last_pos,          \* Formatter.last_pos
    stack,             \* the calls still to run, innermost first
    emitted,           \* history: how often each comment's bytes were emitted
    called,            \* history: the call the last step ran
    pass,              \* 1: formatting an input, 2: formatting the first output
    first_block,       \* history: the block parsed from the first run's input
    first_output,      \* the first run's output with its final newline
    line_length,       \* config.line_length
    margin,            \* config.margin
    first_result       \* history: what an earlier call on this source returned

\* the state of one run of the nufmt executable (src/main.rs)
VARIABLES
    cli,               \* the parsed command line and what it finds on disk
    cli_pc,            \* where main stands
    config,            \* main's `config`
    target_files,      \* the .nu files discover_nu_files found
    invalid_files,     \* the given paths that do not exist
    diagnostics,       \* what format_files has computed so far, per file
    results,           \* main's `results`
    written,           \* history: the files written back
    exit_code          \* the ExitCode handed to exit_with_code

cli_vars == <<cli, cli_pc, config, target_files, invalid_files, diagnostics,
              results, written, exit_code>>

vars == <<source, parsed_block, indent, pc, result, output, indent_level,
          at_line_start, comments, written_comments, last_pos, stack, emitted,
          called, pass, first_block, first_output, line_length, margin,
          first_result, cli_vars>>

\* Config::default()
ConfigDefault == [indent |-> 4, line_length |-> 80, margin |-> 1]

\* the mutable fields of the Formatter, as one record
Formatter ==
    [output |-> output, indent_level |-> indent_level,
     at_line_start |-> at_line_start, written_comments |-> written_comments,
     last_pos |-> last_pos, emitted |-> emitted]

Becomes(f) ==
    /\ output' = f.output
    /\ indent_level' = f.indent_level
    /\ at_line_start' = f.at_line_start
    /\ written_comments' = f.written_comments
    /\ last_pos' = f.last_pos
    /\ emitted' = f.emitted

\* ------------------------------------------------------------------------
\* Formatter's output primitives
\* ------------------------------------------------------------------------

\* the indentation cut off at the line length
write_indent_within_line_length(f) ==
    IF f.at_line_start
      THEN [f EXCEPT !.output =
                        @ \o Spaces(IF indent * f.indent_level > line_length
                                      THEN line_length
                                      ELSE indent * f.indent_level),
                     !.at_line_start = FALSE]
      ELSE f

\* the indentation written without clearing at_line_start
write_indent_keeps_flag(f) ==
    IF f.at_line_start
      THEN [f EXCEPT !.output = @ \o Spaces(indent * f.indent_level)]
      ELSE f

write_indent(f) ==
    IF f.at_line_start
      THEN [f EXCEPT !.output = @ \o Spaces(indent * f.indent_level),
                     !.at_line_start = FALSE]
      ELSE f

write(f, s) == [write_indent(f) EXCEPT !.output = @ \o s]

write_bytes(f, bytes) == [write_indent(f) EXCEPT !.output = @ \o bytes]

newline(f) == [f EXCEPT !.output = Append(@, NL), !.at_line_start = TRUE]

\* a space whatever the last byte is
space_always(f) ==
    IF ~f.at_line_start /\ f.output # <<>>
      THEN [f EXCEPT !.output = Append(@, SP)]
      ELSE f

space(f) ==
    IF ~f.at_line_start /\ f.output # <<>>
         /\ Last(f.output) \notin {SP, NL, TAB, "(", "["}
      THEN [f EXCEPT !.output = Append(@, SP)]
      ELSE f

\* a span read as if its end were inclusive
get_span_content_inclusive(span) ==
    SubSeq(source, span.start + 1,
           IF span.end < Len(source) THEN span.end + 1 ELSE span.end)

get_span_content(span) == SubSeq(source, span.start + 1, span.end)

\* ------------------------------------------------------------------------
\* Comment reattachment
\* ------------------------------------------------------------------------

\* sort_by_key(start), a stable sort, on a sequence of comment indices
RECURSIVE insert_by_start(_, _)
insert_by_start(sorted, i) ==
    IF sorted = <<>> THEN <<i>>
    ELSE IF comments[i].span.start < comments[Head(sorted)].span.start
      THEN <<i>> \o sorted
      ELSE <<Head(sorted)>> \o insert_by_start(Tail(sorted), i)

\* the comments selected, latest first
sort_by_start_descending(idxs) ==
    [k \in 1..Len(idxs) |-> idxs[Len(idxs) + 1 - k]]

RECURSIVE sort_by_start(_)
sort_by_start(idxs) ==
    IF idxs = <<>> THEN <<>>
    ELSE insert_by_start(sort_by_start(SubSeq(idxs, 1, Len(idxs) - 1)),
                         Last(idxs))

\* the body of write_comments_before's second loop, for one comment
write_one_comment(f, idx) ==
    LET f1 == [f EXCEPT !.written_comments[idx] = TRUE]
        f2 == IF ~f1.at_line_start /\ f1.output # <<>> /\ Last(f1.output) # NL
                THEN newline(f1) ELSE f1
        f3 == write_indent(f2)
        f4 == [f3 EXCEPT !.output = @ \o comments[idx].content,
                         !.emitted[idx] = @ + 1]
    IN newline(f4)

RECURSIVE write_each_comment(_, _)
write_each_comment(f, idxs) ==
    IF idxs = <<>> THEN f
    ELSE write_each_comment(write_one_comment(f, Head(idxs)), Tail(idxs))

\* the selection without the test of written_comments
comments_to_write_unflagged(f, pos) ==
    SelectSeq([i \in 1..Len(comments) |-> i],
              LAMBDA i : /\ comments[i].span.start >= f.last_pos
                         /\ comments[i].span.end <= pos)

comments_to_write(f, pos) ==
    SelectSeq([i \in 1..Len(comments) |-> i],
              LAMBDA i : /\ ~f.written_comments[i]
                         /\ comments[i].span.start >= f.last_pos
                         /\ comments[i].span.end <= pos)

write_comments_before(f, pos) ==
    write_each_comment(f, sort_by_start(comments_to_write(f, pos)))

inline_candidates(f, after_pos) ==
    LET line_end == line_end_from(source, after_pos) IN
    SelectSeq([i \in 1..Len(comments) |-> i],
              LAMBDA i : /\ ~f.written_comments[i]
                         /\ comments[i].span.start >= after_pos
                         /\ comments[i].span.start < line_end)

write_inline_comment(f, after_pos) ==
    LET found == inline_candidates(f, after_pos) IN
    IF found = <<>> THEN f
    ELSE LET idx == Head(found)
             f1 == [f EXCEPT !.written_comments[idx] = TRUE]
             f2 == write(f1, <<SP>>)
         IN [f2 EXCEPT !.output = @ \o comments[idx].content,
                       !.emitted[idx] = @ + 1,
                       !.last_pos = comments[idx].span.end]

\* ------------------------------------------------------------------------
\* Pending calls.  A call that only calls others is replaced on the stack by
\* its body, the sequence of calls it makes, in order.
\* ------------------------------------------------------------------------

OpWrite(s) == [op |-> "write", s |-> s]
OpWriteBytes(bytes) == [op |-> "write_bytes", bytes |-> bytes]
OpNewline == [op |-> "newline"]
OpSpace == [op |-> "space"]
OpWriteIndent == [op |-> "write_indent"]
OpIndentInc == [op |-> "indent_level += 1"]
OpIndentDec == [op |-> "indent_level -= 1"]
OpSetLastPos(pos) == [op |-> "last_pos =", pos |-> pos]
OpCommentsBefore(pos) == [op |-> "write_comments_before", pos |-> pos]
OpInlineComment(pos) == [op |-> "write_inline_comment", after_pos |-> pos]
OpBlock(block) == [op |-> "format_block", block |-> block]
OpPipeline(pipeline) == [op |-> "format_pipeline", pipeline |-> pipeline]
OpElement(element) == [op |-> "format_pipeline_element", element |-> element]
OpExpression(e) == [op |-> "format_expression", expr |-> e]
OpBlockExpression(block, span, with_braces) ==
    [op |-> "format_block_expression", block |-> block, span |-> span,
     with_braces |-> with_braces]
OpList(items, span) == [op |-> "format_list", items |-> items, span |-> span]
OpRecord(items, span) ==
    [op |-> "format_record", items |-> items, span |-> span]
OpMatchBlock(matches) == [op |-> "format_match_block", matches |-> matches]
OpMatchPattern(pattern) == [op |-> "format_match_pattern", pattern |-> pattern]
OpClosureExpression(block, span) ==
    [op |-> "format_closure_expression", block |-> block, span |-> span]

\* "|" followed by a space only, and "=" alone
Str_pipe_tight == <<"|", SP>>
Str_eq_tight == <<"=">>

\* the text of a Rust &str literal
Str_pipe == <<SP, "|", SP>>
Str_eq == <<"=", SP>>
Str_comma == <<",", SP>>
Str_spread == <<".", ".", ".">>
Str_not == <<"n", "o", "t", SP>>

Digit == <<"0", "1", "2", "3", "4", "5", "6", "7", "8", "9">>

\* usize::to_string
RECURSIVE to_string(_)
to_string(n) ==
    IF n < 10 THEN <<Digit[n + 1]>>
    ELSE to_string(n \div 10) \o <<Digit[(n % 10) + 1]>>

\* ------------------------------------------------------------------------
\* Classification helpers
\* ------------------------------------------------------------------------

is_simple_expr(e) ==
    e.kind \in {"Int", "Float", "Bool", "String", "RawString", "Nothing", "Var",
                "Filepath", "Directory", "GlobPattern", "DateTime"}

RECURSIVE expr_is_complex(_)
expr_is_complex(e) ==
    CASE e.kind \in {"Block", "Closure"} -> TRUE
      [] e.kind = "List" -> Len(e.items) > 3
      [] e.kind = "Record" -> Len(e.items) > 2
      [] e.kind = "Call" ->
           \E i \in 1..Len(e.arguments) :
              LET a == e.arguments[i] IN
              IF a.arg = "Named"
                THEN a.value # None /\ expr_is_complex(a.value)
                ELSE expr_is_complex(a.expr)
      [] OTHER -> FALSE

block_has_nested_structures(block) ==
    \E i \in 1..Len(block.pipelines) :
       \E j \in 1..Len(block.pipelines[i].elements) :
          expr_is_complex(block.pipelines[i].elements[j].expr)

RECURSIVE expr_has_garbage(_)
has_garbage(block) ==
    \E i \in 1..Len(block.pipelines) :
       \E j \in 1..Len(block.pipelines[i].elements) :
          expr_has_garbage(block.pipelines[i].elements[j].expr)

expr_has_garbage(e) ==
    CASE e.kind = "Garbage" -> TRUE
      [] e.kind = "BinaryOp" ->
           expr_has_garbage(e.lhs) \/ expr_has_garbage(e.op)
             \/ expr_has_garbage(e.rhs)
      [] e.kind = "UnaryNot" -> expr_has_garbage(e.inner)
      [] e.kind \in {"Block", "Closure", "Subexpression"} -> has_garbage(e.block)
      [] e.kind = "Call" ->
           \E i \in 1..Len(e.arguments) :
              LET a == e.arguments[i] IN
              IF a.arg = "Named"
                THEN a.value # None /\ expr_has_garbage(a.value)
                ELSE expr_has_garbage(a.expr)
      [] e.kind = "List" ->
           \E i \in 1..Len(e.items) : expr_has_garbage(e.items[i].expr)
      [] e.kind = "Record" ->
           \E i \in 1..Len(e.items) :
              LET it == e.items[i] IN
              IF it.item = "Pair"
                THEN expr_has_garbage(it.key) \/ expr_has_garbage(it.value)
                ELSE expr_has_garbage(it.expr)
      [] OTHER -> FALSE

\* ------------------------------------------------------------------------
\* The bodies of the tree-walking functions
\* ------------------------------------------------------------------------

VerbatimKinds ==
    {"Int", "Float", "Bool", "Nothing", "DateTime", "String", "RawString",
     "Binary", "Filepath", "Directory", "GlobPattern", "Var", "VarDecl",
     "Operator", "StringInterpolation", "GlobInterpolation", "Signature",
     "ImportPattern", "Overlay", "Garbage"}

\* end_pos of format_block: where the pipeline's last element ends
element_end_pos(last_elem) ==
    IF last_elem.redirection # None
      THEN last_elem.redirection.target_end
      ELSE last_elem.expr.span.end

format_block_body(block) ==
    LET n == Len(block.pipelines)
        one(i) ==
          LET elems == block.pipelines[i].elements IN
          (IF elems # <<>>
             THEN <<OpCommentsBefore(elems[1].expr.span.start)>> ELSE <<>>)
          \o <<OpPipeline(block.pipelines[i])>>
          \o (IF elems # <<>>
                THEN <<OpInlineComment(element_end_pos(Last(elems))),
                       OpSetLastPos(element_end_pos(Last(elems)))>>
                ELSE <<>>)
          \o (IF i < n THEN <<OpNewline>> ELSE <<>>)
    IN Flatten([i \in 1..n |-> one(i)])

format_pipeline_body(pipeline) ==
    Flatten([i \in 1..Len(pipeline.elements) |->
               (IF i > 1 THEN <<OpWrite(Str_pipe)>> ELSE <<>>)
               \o <<OpElement(pipeline.elements[i])>>])

\* a positional argument that is rendered with braces when it is a block
braced_or_plain(e) ==
    IF e.kind \in {"Block", "Closure"}
      THEN <<OpBlockExpression(e.block, e.span, TRUE)>>
      ELSE <<OpExpression(e)>>

\* one iteration of `for arg in &call.arguments`
format_argument(decl_name, a) ==
    LET is_def == decl_name \in {"def", "def-env", "export def"}
        is_let == decl_name \in {"let", "let-env", "mut", "const"}
    IN
    CASE a.arg \in {"Positional", "Unknown"} ->
           IF is_def
             THEN <<OpSpace>>
                  \o (IF a.expr.kind = "Signature"
                        THEN <<[op |-> "format_signature_expression",
                                expr |-> a.expr]>>
                        ELSE braced_or_plain(a.expr))
           ELSE IF decl_name \in {"if", "try"}
             THEN <<OpSpace>> \o braced_or_plain(a.expr)
           ELSE IF is_let
             THEN <<OpSpace>>
                  \o (CASE a.expr.kind = "VarDecl" -> <<OpExpression(a.expr)>>
                        [] a.expr.kind = "Block" ->
                             <<OpWrite(Str_eq), OpBlock(a.expr.block)>>
                        [] OTHER -> <<OpWrite(Str_eq), OpExpression(a.expr)>>)
           ELSE IF decl_name \in {"for", "while", "loop", "module"}
             THEN <<OpSpace>> \o braced_or_plain(a.expr)
           ELSE <<OpSpace, OpExpression(a.expr)>>
      [] a.arg = "Named" ->
           <<OpSpace>>
           \o (IF a.flag.end # 0
                 THEN <<OpWriteBytes(get_span_content(a.flag))>> ELSE <<>>)
           \o (IF a.short # None
                 THEN <<OpWriteBytes(get_span_content(a.short))>> ELSE <<>>)
           \o (IF a.value # None
                 THEN <<OpSpace, OpExpression(a.value)>> ELSE <<>>)
      [] a.arg = "Spread" ->
           <<OpSpace, OpWrite(Str_spread), OpExpression(a.expr)>>

path_member(m) ==
    <<OpWrite(<<".">>)>>
    \o (IF m.optional THEN <<OpWrite(<<"?">>)>> ELSE <<>>)
    \o <<OpWrite(IF m.member = "Int" THEN to_string(m.val) ELSE m.val)>>

\* the arms of format_expression that call other functions
format_expression_body(e) ==
    CASE e.kind = "Call" ->
           (IF e.head.end # 0
              THEN <<OpWriteBytes(get_span_content(e.head))>> ELSE <<>>)
           \o Flatten([i \in 1..Len(e.arguments) |->
                         format_argument(e.decl_name, e.arguments[i])])
      [] e.kind = "ExternalCall" ->
           <<OpExpression(e.head)>>
           \o Flatten([i \in 1..Len(e.args) |->
                         IF e.args[i].arg = "Regular"
                           THEN <<OpSpace, OpExpression(e.args[i].expr)>>
                           ELSE <<OpSpace, OpWrite(Str_spread),
                                  OpExpression(e.args[i].expr)>>])
      [] e.kind = "BinaryOp" ->
           <<OpExpression(e.lhs), OpSpace, OpExpression(e.op), OpSpace,
             OpExpression(e.rhs)>>
      [] e.kind = "UnaryNot" -> <<OpWrite(Str_not), OpExpression(e.inner)>>
      [] e.kind = "Block" -> <<OpBlockExpression(e.block, e.span, FALSE)>>
      [] e.kind = "Closure" -> <<OpClosureExpression(e.block, e.span)>>
      [] e.kind = "Subexpression" ->
           <<OpWrite(<<"(">>)>>
           \o (IF Len(e.block.pipelines) = 1
                    /\ Len(e.block.pipelines[1].elements) <= 3
                 THEN <<OpBlock(e.block)>>
                 ELSE <<OpNewline, OpIndentInc, OpBlock(e.block), OpNewline,
                        OpIndentDec, OpWriteIndent>>)
           \o <<OpWrite(<<")">>)>>
      [] e.kind = "List" -> <<OpList(e.items, e.span)>>
      [] e.kind = "Record" -> <<OpRecord(e.items, e.span)>>
      [] e.kind = "FullCellPath" ->
           <<OpExpression(e.head)>>
           \o Flatten([i \in 1..Len(e.tail) |-> path_member(e.tail[i])])
      [] e.kind = "Keyword" ->
           <<OpWriteBytes(get_span_content(e.keyword)), OpSpace>>
           \o braced_or_plain(e.expr)
      [] e.kind = "MatchBlock" -> <<OpMatchBlock(e.matches)>>
      [] e.kind = "Range" ->
           (IF e.from # None THEN <<OpExpression(e.from)>> ELSE <<>>)
           \o (IF e.next # None
                 THEN <<OpWrite(<<",">>), OpExpression(e.next)>> ELSE <<>>)
           \o <<OpWriteBytes(get_span_content(e.operator))>>
           \o (IF e.to # None THEN <<OpExpression(e.to)>> ELSE <<>>)

\* the body without the closing `indent_level -= 1`
format_block_expression_body_unbalanced(block, with_braces) ==
    LET is_simple == /\ Len(block.pipelines) = 1
                     /\ Len(block.pipelines[1].elements) = 1
                     /\ ~block_has_nested_structures(block)
    IN
    (IF with_braces THEN <<OpWrite(<<"{">>)>> ELSE <<>>)
    \o (IF is_simple /\ with_braces
          THEN <<OpWrite(<<SP>>), OpBlock(block), OpWrite(<<SP>>)>>
        ELSE IF block.pipelines = <<>>
          THEN (IF with_braces THEN <<OpWrite(<<SP>>)>> ELSE <<>>)
        ELSE <<OpNewline, OpIndentInc, OpBlock(block), OpNewline,
               OpWriteIndent>>)
    \o (IF with_braces THEN <<OpWrite(<<"}">>)>> ELSE <<>>)

format_block_expression_body(block, with_braces) ==
    LET is_simple == /\ Len(block.pipelines) = 1
                     /\ Len(block.pipelines[1].elements) = 1
                     /\ ~block_has_nested_structures(block)
    IN
    (IF with_braces THEN <<OpWrite(<<"{">>)>> ELSE <<>>)
    \o (IF is_simple /\ with_braces
          THEN <<OpWrite(<<SP>>), OpBlock(block), OpWrite(<<SP>>)>>
        ELSE IF block.pipelines = <<>>
          THEN (IF with_braces THEN <<OpWrite(<<SP>>)>> ELSE <<>>)
        ELSE <<OpNewline, OpIndentInc, OpBlock(block), OpNewline, OpIndentDec,
               OpWriteIndent>>)
    \o (IF with_braces THEN <<OpWrite(<<"}">>)>> ELSE <<>>)

format_match_block_body(matches) ==
    <<OpWrite(<<"{">>), OpNewline, OpIndentInc>>
    \o Flatten([i \in 1..Len(matches) |->
                  LET pattern == matches[i][1]
                      expr == matches[i][2]
                  IN <<OpWriteIndent, OpMatchPattern(pattern),
                       OpWrite(<<SP, "=", ">", SP>>)>>
                     \o (IF expr.kind \in {"Block", "Closure"}
                           THEN <<OpBlockExpression(expr.block, expr.span,
                                                    TRUE)>>
                           ELSE <<OpExpression(expr)>>)
                     \o <<OpNewline>>])
    \o <<OpIndentDec, OpWriteIndent, OpWrite(<<"}">>)>>

\* the arms Value, Variable, Rest and Garbage copy the span; IgnoreValue and
\* IgnoreRest write a fixed text
format_match_pattern(f, pattern) ==
    CASE pattern.pattern = "IgnoreValue" -> write(f, <<"_">>)
      [] pattern.pattern = "IgnoreRest" -> write(f, <<".", ".">>)
      [] OTHER -> write_bytes(f, get_span_content(pattern.span))

\* u8::is_ascii_whitespace
is_ascii_whitespace(b) == b \in {SP, TAB, NL, "\f", "\r"}

RECURSIVE skip_while_whitespace(_)
skip_while_whitespace(bytes) ==
    IF bytes # <<>> /\ is_ascii_whitespace(Head(bytes))
      THEN skip_while_whitespace(Tail(bytes))
      ELSE bytes

rev(bytes) == [i \in 1..Len(bytes) |-> bytes[Len(bytes) + 1 - i]]

Some(v) == [some |-> v]

\* Iterator::position: Some index, from 0, of the first byte b, or None
position(bytes, b) ==
    IF \E i \in 1..Len(bytes) : bytes[i] = b
      THEN Some((CHOOSE i \in 1..Len(bytes) :
                   /\ bytes[i] = b
                   /\ \A j \in 1..(i - 1) : bytes[j] # b) - 1)
      ELSE None

starts_with(bytes, prefix) ==
    /\ Len(bytes) >= Len(prefix)
    /\ SubSeq(bytes, 1, Len(prefix)) = prefix

\* Some index after the second "|" of the closure's text, or None
param_end(content) ==
    LET first == position(content, "|") IN
    IF first = None THEN None
    ELSE LET p == position(SubSeq(content, first.some + 2, Len(content)), "|")
         IN IF p = None THEN None ELSE Some(first.some + 1 + p.some + 1)

\* the parameters are cut at `content[2..end - 1]`
closure_params(content, end) == SubSeq(content, 3, end - 1)

format_closure_expression_body(block, span) ==
    LET content == get_span_content(span)
        has_params == \/ starts_with(content, <<"{", "|">>)
                      \/ starts_with(content, <<"{", SP, "|">>)
        end == param_end(content)
        is_simple == /\ Len(block.pipelines) = 1
                     /\ Len(block.pipelines[1].elements) = 1
                     /\ ~block_has_nested_structures(block)
    IN
    IF has_params
      THEN IF end # None
             THEN LET params == closure_params(content, end.some)
                      trimmed == rev(skip_while_whitespace(
                                       rev(skip_while_whitespace(params))))
                  IN <<OpWrite(<<"{", "|">>), OpWriteBytes(trimmed),
                       OpWrite(<<"|", SP>>)>>
                     \o (IF is_simple
                           THEN <<OpBlock(block), OpWrite(<<SP, "}">>)>>
                           ELSE <<OpNewline, OpIndentInc, OpBlock(block),
                                  OpNewline, OpIndentDec, OpWriteIndent,
                                  OpWrite(<<"}">>)>>)
             ELSE <<OpWriteBytes(content)>>
      ELSE <<OpBlockExpression(block, span, TRUE)>>

\* `...` + item for a spread, the item alone otherwise
list_item(it) ==
    IF it.item = "Item" THEN <<OpExpression(it.expr)>>
    ELSE <<OpWrite(Str_spread), OpExpression(it.expr)>>

\* `items.len() < 5` in place of `items.len() <= 5`
ListInlineMaxStrict == 5 - 1

\* the largest number of items format_list keeps on one line
ListInlineMax == 5

format_list_body(items) ==
    LET n == Len(items)
        all_simple == \A i \in 1..n : is_simple_expr(items[i].expr)
    IN
    IF items = <<>> THEN <<OpWrite(<<"[", "]">>)>>
    ELSE IF all_simple /\ n <= ListInlineMax
      THEN <<OpWrite(<<"[">>)>>
           \o Flatten([i \in 1..n |->
                         (IF i > 1 THEN <<OpWrite(Str_comma)>> ELSE <<>>)
                         \o list_item(items[i])])
           \o <<OpWrite(<<"]">>)>>
      ELSE <<OpWrite(<<"[">>), OpNewline, OpIndentInc>>
           \o Flatten([i \in 1..n |->
                         <<OpWriteIndent>> \o list_item(items[i])
                         \o <<OpNewline>>])
           \o <<OpIndentDec, OpWriteIndent, OpWrite(<<"]">>)>>

\* the pair `key: value`, or `...` + the expression for a spread
record_item(it) ==
    IF it.item = "Pair"
      THEN <<OpExpression(it.key), OpWrite(<<":", SP>>), OpExpression(it.value)>>
      ELSE <<OpWrite(Str_spread), OpExpression(it.expr)>>

\* `items.len() <= 4` in place of `items.len() <= 3`
RecordInlineMaxWide == 3 + 1

\* the largest number of items format_record keeps on one line
RecordInlineMax == 3

format_record_body(items) ==
    LET n == Len(items)
        all_simple ==
          \A i \in 1..n :
             IF items[i].item = "Pair"
               THEN is_simple_expr(items[i].key) /\ is_simple_expr(items[i].value)
               ELSE is_simple_expr(items[i].expr)
    IN
    IF items = <<>> THEN <<OpWrite(<<"{", "}">>)>>
    ELSE IF all_simple /\ n <= RecordInlineMax
      THEN <<OpWrite(<<"{">>)>>
           \o Flatten([i \in 1..n |->
                         (IF i > 1 THEN <<OpWrite(Str_comma)>> ELSE <<>>)
                         \o record_item(items[i])])
           \o <<OpWrite(<<"}">>)>>
      ELSE <<OpWrite(<<"{">>), OpNewline, OpIndentInc>>
           \o Flatten([i \in 1..n |->
                         <<OpWriteIndent>> \o record_item(items[i])
                         \o <<OpNewline>>])
           \o <<OpIndentDec, OpWriteIndent, OpWrite(<<"}">>)>>

add_newline_at_end_of_file(out) ==
    IF out # <<>> /\ Last(out) = NL THEN out ELSE Append(out, NL)

\* ------------------------------------------------------------------------
\* Inputs: source texts together with the block nu_parser::parse returns for
\* them.  A text is laid out as a sequence of pieces (tokens, gaps, comments);
\* At(p, i, j) is the span from the first byte of piece i to the last byte of
\* piece j.
\* ------------------------------------------------------------------------

SumLen(p, k) == Len(Flatten(SubSeq(p, 1, k)))

At(p, i, j) == Span(SumLen(p, i - 1), SumLen(p, j))

Program(p, block) == [source |-> Flatten(p), block |-> block]

w_let == <<"l", "e", "t">>
w_mut == <<"m", "u", "t">>
w_const == <<"c", "o", "n", "s", "t">>
w_let_env == <<"l", "e", "t", "-", "e", "n", "v">>
w_if == <<"i", "f">>
w_true == <<"t", "r", "u", "e">>
w_else == <<"e", "l", "s", "e">>
w_def == <<"d", "e", "f">>
w_foo == <<"f", "o", "o">>
w_ls == <<"l", "s">>
w_get == <<"g", "e", "t">>
w_name == <<"n", "a", "m", "e">>
w_wc == <<"w", "c">>
w_pwd == <<"p", "w", "d">>
w_loop == <<"l", "o", "o", "p">>
w_try == <<"t", "r", "y">>
w_do == <<"d", "o">>
w_match == <<"m", "a", "t", "c", "h">>
w_export_env == <<"e", "x", "p", "o", "r", "t", "-", "e", "n", "v">>

\* the comment `# <ch>`
Cmt(ch) == <<HASH, SP, ch>>

Gaps == 1..MaxGap

\* the input ends with or without a newline
Tails == {<<>>, <<NL>>}

External(span) == ExternalCall(span, Leaf("GlobPattern", span), <<>>)

\* let x = 1, let-env x = 1, mut x = 1: the value is wrapped in a block;
\* const x = 1: the value is the expression itself
LetProgram(decl_name, head, g1, g2, g3, tail) ==
    LET p == <<head, Spaces(g1), <<"x">>, Spaces(g2), <<"=">>, Spaces(g3),
               <<"1">>, tail>>
        one == Leaf("Int", At(p, 7, 7))
        value == IF decl_name = "const" THEN one
                 ELSE BlockRef("Block", At(p, 7, 7), Single(one))
    IN Program(p, Single(Call(decl_name, At(p, 1, 7), At(p, 1, 1),
                              <<Positional(Leaf("VarDecl", At(p, 3, 3))),
                                Positional(value)>>)))

LetPrograms ==
    { LetProgram(d[1], d[2], g1, g2, g3, tail) :
        d \in {<<"let", w_let>>, <<"let-env", w_let_env>>, <<"mut", w_mut>>,
               <<"const", w_const>>},
        g1 \in Gaps, g2 \in Gaps, g3 \in Gaps, tail \in Tails }

\* ls | get name  and  ls | get name | wc
PipeProgram(n, g1, g2, tail) ==
    LET third == n = 3
        p == <<w_ls, Spaces(g1), <<"|">>, Spaces(g2), w_get, <<SP>>, w_name,
               IF third THEN Spaces(g1) ELSE <<>>,
               IF third THEN <<"|">> ELSE <<>>,
               IF third THEN Spaces(g2) ELSE <<>>,
               IF third THEN w_wc ELSE <<>>, tail>>
        ls == Element(External(At(p, 1, 1)))
        get == Element(ExternalCall(At(p, 5, 7), Leaf("GlobPattern", At(p, 5, 5)),
                                    <<Regular(Leaf("String", At(p, 7, 7)))>>))
        wc == Element(External(At(p, 11, 11)))
    IN Program(p, Block(<<Pipeline(IF third THEN <<ls, get, wc>>
                                   ELSE <<ls, get>>)>>))

PipePrograms ==
    { PipeProgram(n, g1, g2, tail) :
        n \in 2..3, g1 \in 0..MaxGap, g2 \in 0..MaxGap, tail \in Tails }

\* how the items of a list literal are laid out
ListLayouts ==
    { [open |-> <<>>, sep |-> s, close |-> <<>>] :
        s \in {<<",">>, <<",", SP>>, <<SP>>} }
    \cup { [open |-> <<NL>> \o Spaces(w), sep |-> <<NL>> \o Spaces(w),
            close |-> <<NL>>] : w \in 1..MaxIndent }

\* the pieces of [1, 2, ..., n]: item i is piece 2i + 1
ListPieces(n, lay) ==
    [k \in 1..(2 * n + 3) |->
       IF k = 1 THEN <<"[">>
       ELSE IF k = 2 THEN lay.open
       ELSE IF k = 2 * n + 3 THEN <<"]">>
       ELSE IF k = 2 * n + 2 THEN lay.close
       ELSE IF k % 2 = 1 THEN <<Digit[((k - 1) \div 2) + 1]>>
       ELSE lay.sep]

ListItems(p, n, off) ==
    [i \in 1..n |-> Item(Leaf("Int", At(p, off + 2 * i + 1, off + 2 * i + 1)))]

\* [1, 2, 3]: a bare List, or the FullCellPath with an empty tail that
\* parse_full_cell_path wraps around it
ListProgram(n, lay, wrapped, tail) ==
    LET p == ListPieces(n, lay) \o <<tail>>
        list == List(At(p, 1, 2 * n + 3), ListItems(p, n, 0))
    IN Program(p, Single(IF wrapped
                           THEN FullCellPath(At(p, 1, 2 * n + 3), list, <<>>)
                           ELSE list))

ListPrograms ==
    { ListProgram(n, lay, wrapped, tail) :
        n \in 1..MaxItems, lay \in ListLayouts, wrapped \in BOOLEAN,
        tail \in Tails }

\* if true { ls; [1 2 ... n] }
NestedListProgram(n) ==
    LET lay == [open |-> <<>>, sep |-> <<SP>>, close |-> <<>>]
        p == <<w_if, <<SP>>, w_true, <<SP>>, <<"{">>, <<SP>>, w_ls, <<";">>,
               <<SP>>>> \o ListPieces(n, lay) \o << <<SP>>, <<"}">> >>
        last == 2 * n + 14
        list == List(At(p, 10, 2 * n + 12), ListItems(p, n, 9))
        body == Block(<<Pipeline(<<Element(External(At(p, 7, 7)))>>),
                        Pipeline(<<Element(FullCellPath(At(p, 10, 2 * n + 12),
                                                        list, <<>>))>>)>>)
    IN Program(p, Single(Call("if", At(p, 1, last), At(p, 1, 1),
                              <<Positional(Leaf("Bool", At(p, 3, 3))),
                                Positional(BlockRef("Block", At(p, 5, last),
                                                    body))>>)))

NestedListPrograms == { NestedListProgram(n) : n \in 1..MaxItems }

\* a comment piece that is present only when its slot is chosen
Opt(present, piece) == IF present THEN piece ELSE <<>>

\* two statements with comments in any of five places:
\*   [# a]          before the first statement
\*   ls [# b]       after it on its line
\*   [# c]          on a line between the two
\*   pwd [# d]      after the second on its line
\*   [# e]          on a line after the last statement
ScriptProgram(slots, tail) ==
    LET p == <<Opt(1 \in slots, Cmt("a") \o <<NL>>), w_ls,
               Opt(2 \in slots, <<SP>> \o Cmt("b")), <<NL>>,
               Opt(3 \in slots, Cmt("c") \o <<NL>>), w_pwd,
               Opt(4 \in slots, <<SP>> \o Cmt("d")),
               Opt(5 \in slots, <<NL>> \o Cmt("e")), tail>>
    IN Program(p, Block(<<Pipeline(<<Element(External(At(p, 2, 2)))>>),
                          Pipeline(<<Element(External(At(p, 6, 6)))>>)>>))

ScriptPrograms ==
    { ScriptProgram(slots, tail) : slots \in SUBSET (1..5), tail \in Tails }

\* a file of comments only, or of newlines only: parse returns no pipeline
CommentOnlyProgram(k, tail) ==
    Program(<<Cmt("a"), Opt(k = 2, <<NL>> \o Cmt("b")), tail>>, Block(<<>>))

BlankProgram(k) == Program(<<Repeat(<<NL>>, k)>>, Block(<<>>))

NoCodePrograms ==
    { CommentOnlyProgram(k, tail) : k \in 1..2, tail \in Tails }
    \cup { BlankProgram(k) : k \in 0..MaxBlank }

\* an `if` whose block holds one statement, with comments in any of five
\* places:
\*   if true { [# a]
\*     [# b]
\*     ls [# c]
\*     [# d]
\*   } [# e]
BlockCommentProgram(slots, tail) ==
    LET p == <<w_if, <<SP>>, w_true, <<SP>>, <<"{">>,
               Opt(1 \in slots, <<SP>> \o Cmt("a")), <<NL, SP, SP>>,
               Opt(2 \in slots, Cmt("b") \o <<NL, SP, SP>>), w_ls,
               Opt(3 \in slots, <<SP>> \o Cmt("c")), <<NL>>,
               Opt(4 \in slots, <<SP, SP>> \o Cmt("d") \o <<NL>>), <<"}">>,
               Opt(5 \in slots, <<SP>> \o Cmt("e")), tail>>
    IN Program(p, Single(Call("if", At(p, 1, 13), At(p, 1, 1),
                              <<Positional(Leaf("Bool", At(p, 3, 3))),
                                Positional(BlockRef("Block", At(p, 5, 13),
                                    Single(External(At(p, 9, 9)))))>>)))

BlockCommentPrograms ==
    { BlockCommentProgram(slots, tail) :
        slots \in SUBSET (1..5), tail \in Tails }

\* a list over several lines with a comment after its first item:
\*   [
\*     1 # a
\*     2
\*   ]
ListCommentProgram(tail) ==
    LET p == << <<"[">>, <<NL, SP, SP>>, <<"1">>, <<SP>> \o Cmt("a"),
                <<NL, SP, SP>>, <<"2">>, <<NL>>, <<"]">>, tail>>
        list == List(At(p, 1, 8), <<Item(Leaf("Int", At(p, 3, 3))),
                                    Item(Leaf("Int", At(p, 6, 6)))>>)
    IN Program(p, Single(FullCellPath(At(p, 1, 8), list, <<>>)))

ListCommentPrograms == { ListCommentProgram(tail) : tail \in Tails }

\* a definition whose parameter is documented by a comment, with k comment
\* lines already standing before the body's statement:
\*   def foo [
\*     x # c
\*   ] { ls }
DefDocProgram(k, tail) ==
    LET sig == <<"[", NL, SP, SP, "x", SP>> \o Cmt("c") \o <<NL, "]">>
        p == <<w_def, <<SP>>, w_foo, <<SP>>, sig, <<SP>>, <<"{">>,
               IF k = 0 THEN <<SP>>
               ELSE <<SP, NL>> \o Repeat(Cmt("c") \o <<NL>>, k),
               w_ls, <<SP>>, <<"}">>, tail>>
    IN Program(p, Single(Call("def", At(p, 1, 11), At(p, 1, 1),
                              <<Positional(Leaf("String", At(p, 3, 3))),
                                Positional(Leaf("Signature", At(p, 5, 5))),
                                Positional(BlockRef("Closure", At(p, 7, 11),
                                    Single(External(At(p, 9, 9)))))>>)))

DefDocPrograms ==
    { DefDocProgram(k, tail) : k \in 0..MaxBodyComments, tail \in Tails }

\* `1 + 2`, or the incomplete `1 +`, for which parse_math_expression
\* pushes Garbage for the operator and for the missing operand
MathExpr(p, i, complete) ==
    IF complete
      THEN BinaryOp(At(p, i, i + 4), Leaf("Int", At(p, i, i)),
                    Leaf("Operator", At(p, i + 2, i + 2)),
                    Leaf("Int", At(p, i + 4, i + 4)))
      ELSE BinaryOp(At(p, i, i + 2), Leaf("Int", At(p, i, i)),
                    Leaf("Garbage", At(p, i + 2, i + 2)),
                    Leaf("Garbage", At(p, i + 2, i + 2)))

MathPieces(complete) ==
    << <<"1">>, <<SP>>, <<"+">>, Opt(complete, <<SP>>), Opt(complete, <<"2">>) >>

\* 1 + 2  and  1 +
MathProgram(complete, tail) ==
    LET p == MathPieces(complete) \o <<tail>>
    IN Program(p, Single(MathExpr(p, 1, complete)))

\* let x = 1 + 2  and  let x = 1 +
LetMathProgram(complete) ==
    LET p == <<w_let, <<SP>>, <<"x">>, <<SP>>, <<"=">>, <<SP>>>>
             \o MathPieces(complete)
        rhs == MathExpr(p, 7, complete)
    IN Program(p, Single(Call("let", At(p, 1, 11), At(p, 1, 1),
                              <<Positional(Leaf("VarDecl", At(p, 3, 3))),
                                Positional(BlockRef("Block", rhs.span,
                                                    Single(rhs)))>>)))

\* if true { ls } else { 1 + 2 }  and  if true { ls } else { 1 + }
IfElseProgram(complete, tail) ==
    LET p == <<w_if, <<SP>>, w_true, <<SP>>, <<"{">>, <<SP>>, w_ls, <<SP>>,
               <<"}">>, <<SP>>, w_else, <<SP>>, <<"{">>, <<SP>>>>
             \o MathPieces(complete) \o << <<SP>>, <<"}">>, tail >>
        then_block == BlockRef("Block", At(p, 5, 9),
                               Single(External(At(p, 7, 7))))
        else_block == BlockRef("Block", At(p, 13, 21),
                               Single(MathExpr(p, 15, complete)))
    IN Program(p, Single(Call("if", At(p, 1, 21), At(p, 1, 1),
                              <<Positional(Leaf("Bool", At(p, 3, 3))),
                                Positional(then_block),
                                Positional(Keyword(At(p, 11, 21), At(p, 11, 11),
                                                   else_block))>>)))

MathPrograms ==
    { MathProgram(c, tail) : c \in BOOLEAN, tail \in Tails }
    \cup { LetMathProgram(c) : c \in BOOLEAN }
    \cup { IfElseProgram(c, tail) : c \in BOOLEAN, tail \in Tails }

\* a command whose one argument is a block: the keywords `loop { ls }` and
\* `try { ls }`, and the regular command `export-env { ls }`
BlockArgProgram(decl_name, head, g, tail) ==
    LET p == <<head, Spaces(g), <<"{">>, <<SP>>, w_ls, <<SP>>, <<"}">>, tail>>
    IN Program(p, Single(Call(decl_name, At(p, 1, 7), At(p, 1, 1),
                              <<Positional(BlockRef("Block", At(p, 3, 7),
                                    Single(External(At(p, 5, 5)))))>>)))

BlockArgPrograms ==
    { BlockArgProgram(d[1], d[2], g, tail) :
        d \in {<<"loop", w_loop>>, <<"try", w_try>>,
               <<"export-env", w_export_env>>},
        g \in Gaps, tail \in Tails }

\* the ranges 1..9, 1..<9, 1.. and ..9, and with a step 1..3..9 and
\* 1..3..<9
RangeProgram(from, step, op, to, tail) ==
    LET p == <<Opt(from, <<"1">>), Opt(step, <<".", ".">>), Opt(step, <<"3">>),
               op, Opt(to, <<"9">>), tail>>
    IN Program(p, Single(Range(At(p, 1, 5),
                               IF from THEN Leaf("Int", At(p, 1, 1)) ELSE None,
                               IF step THEN Leaf("Int", At(p, 3, 3)) ELSE None,
                               At(p, 4, 4),
                               IF to THEN Leaf("Int", At(p, 5, 5)) ELSE None)))

RangePrograms ==
    { RangeProgram(c[1], c[2], op, c[3], tail) :
        c \in { c \in BOOLEAN \X BOOLEAN \X BOOLEAN :
                  (c[1] \/ c[3]) /\ (c[2] => c[1]) },
        op \in {<<".", ".">>, <<".", ".", "<">>}, tail \in Tails }

\* a closure handed to `do`, without parameters or with the parameter x
\* between bars, spaces allowed after the brace and around the x:
\*   do { ls }    do {|x| ls }    do { |x| ls }    do {| x | ls }
ClosureProgram(has_params, g0, g1, g2, tail) ==
    LET p == <<w_do, <<SP>>, <<"{">>,
               Opt(has_params,
                   Spaces(g0) \o <<"|">> \o Spaces(g1) \o <<"x">>
                     \o Spaces(g2) \o <<"|">>),
               <<SP>>, w_ls, <<SP>>, <<"}">>, tail>>
    IN Program(p, Single(Call("do", At(p, 1, 8), At(p, 1, 1),
                              <<Positional(BlockRef("Closure", At(p, 3, 8),
                                    Single(External(At(p, 6, 6)))))>>)))

ClosurePrograms ==
    { ClosureProgram(FALSE, 0, 0, 0, tail) : tail \in Tails }
    \cup { ClosureProgram(TRUE, g0, g1, g2, tail) :
             g0 \in 0..1, g1 \in 0..1, g2 \in 0..1, tail \in Tails }

\* an external command with or without the caret, with or without an
\* argument: ls, ^ls, ls -l, ^ls -l; the call's span holds the caret, the
\* head's span starts after it
CaretProgram(caret, has_arg, tail) ==
    LET p == <<Opt(caret, <<"^">>), w_ls, Opt(has_arg, <<SP>>),
               Opt(has_arg, <<"-", "l">>), tail>>
    IN Program(p, Single(ExternalCall(At(p, 1, 4),
                                      Leaf("GlobPattern", At(p, 2, 2)),
                                      IF has_arg
                                        THEN <<Regular(Leaf("GlobPattern",
                                                            At(p, 4, 4)))>>
                                        ELSE <<>>)))

CaretPrograms ==
    { CaretProgram(caret, has_arg, tail) :
        caret \in BOOLEAN, has_arg \in BOOLEAN, tail \in Tails }

\* [$a] and [$a $b]: each variable is the FullCellPath with an empty tail
\* that parse_full_cell_path builds for it
VarListProgram(n, tail) ==
    LET p == << <<"[">>, <<"$", "a">>, Opt(n = 2, <<SP>>),
                Opt(n = 2, <<"$", "b">>), <<"]">>, tail >>
        var(i) == FullCellPath(At(p, i, i), Leaf("Var", At(p, i, i)), <<>>)
    IN Program(p, Single(List(At(p, 1, 5),
                              IF n = 2 THEN <<Item(var(2)), Item(var(4))>>
                              ELSE <<Item(var(2))>>)))

VarListPrograms == { VarListProgram(n, tail) : n \in 1..2, tail \in Tails }

\* the record {a: v, b: 1, ..} of n pairs, alone or as the one item of a
\* list; the first value v is 1, "s", $x or [1], the others are 1
RecordKeys == <<"a", "b", "c", "d">>

RecordValues == {"Int", "String", "FullCellPath", "List"}

RecordPieces(n, first, nested) ==
    << Opt(nested, <<"[">>), <<"{">> >>
    \o Flatten([i \in 1..n |->
                  << <<RecordKeys[i]>>, <<":", SP>>,
                     IF i > 1 \/ first = "Int" THEN <<"1">>
                     ELSE IF first = "String" THEN <<DQ, "s", DQ>>
                     ELSE IF first = "FullCellPath" THEN <<"$", "x">>
                     ELSE <<"[", "1", "]">>,
                     Opt(i < n, <<",", SP>>) >>])
    \o << <<"}">>, Opt(nested, <<"]">>) >>

RecordProgram(n, first, nested, tail) ==
    LET p == RecordPieces(n, first, nested) \o <<tail>>
        value(i) ==
          LET s == At(p, 4 * i + 1, 4 * i + 1) IN
          IF i > 1 \/ first = "Int" THEN Leaf("Int", s)
          ELSE IF first = "String" THEN Leaf("String", s)
          ELSE IF first = "FullCellPath"
            THEN FullCellPath(s, Leaf("Var", s), <<>>)
          ELSE List(s, <<Item(Leaf("Int", Span(s.start + 1, s.end - 1)))>>)
        record == Record(At(p, 2, 4 * n + 3),
                         [i \in 1..n |->
                            Pair(Leaf("String", At(p, 4 * i - 1, 4 * i - 1)),
                                 value(i))])
    IN Program(p, Single(IF nested
                           THEN List(At(p, 1, 4 * n + 4), <<Item(record)>>)
                           ELSE record))

RecordPrograms ==
    { RecordProgram(n, first, nested, tail) :
        n \in 1..4, first \in RecordValues, nested \in BOOLEAN, tail \in Tails }

\* (ls) and (ls | wc): a subexpression, inside the FullCellPath with an
\* empty tail that parse_full_cell_path builds for it
SubexpressionProgram(n, tail) ==
    LET bar == <<SP, "|", SP>>
        p == << <<"(">>, w_ls, Opt(n >= 2, bar), Opt(n >= 2, w_wc),
                Opt(n = 4, bar), Opt(n = 4, w_ls), Opt(n = 4, bar),
                Opt(n = 4, w_wc), <<")">>, tail >>
        elements == [i \in 1..n |-> Element(External(At(p, 2 * i, 2 * i)))]
    IN Program(p, Single(FullCellPath(At(p, 1, 9),
                                      BlockRef("Subexpression", At(p, 1, 9),
                                               Block(<<Pipeline(elements)>>)),
                                      <<>>)))

SubexpressionPrograms ==
    { SubexpressionProgram(n, tail) : n \in {1, 2, 4}, tail \in Tails }

\* `match 1 { 1 => 2 }`, with the arm's value also a block `{ ls }` or
\* `{ ls | wc }`, and with a second arm `_ => 3`
MatchProgram(arms, blk, two, tail) ==
    LET p == <<w_match, <<SP>>, <<"1">>, <<SP>>, <<"{">>, <<SP>>, <<"1">>,
               <<SP, "=", ">", SP>>, Opt(blk, <<"{", SP>>),
               IF blk THEN w_ls ELSE <<"2">>, Opt(two, <<SP, "|", SP>>),
               Opt(two, w_wc), Opt(blk, <<SP, "}">>),
               Opt(arms = 2, <<",", SP>>), Opt(arms = 2, <<"_">>),
               Opt(arms = 2, <<SP, "=", ">", SP>>), Opt(arms = 2, <<"3">>),
               <<SP>>, <<"}">>, tail>>
        body == Block(<<Pipeline(<<Element(External(At(p, 10, 10)))>>
                                 \o Opt(two,
                                        <<Element(External(At(p, 12, 12)))>>))>>)
        value == IF blk THEN BlockRef("Block", At(p, 9, 13), body)
                        ELSE Leaf("Int", At(p, 10, 10))
        matches == << <<MatchPattern("Value", At(p, 7, 7)), value>> >>
                   \o Opt(arms = 2,
                          << <<MatchPattern("IgnoreValue", At(p, 15, 15)),
                               Leaf("Int", At(p, 17, 17))>> >>)
    IN Program(p, Single(Call("match", At(p, 1, 19), At(p, 1, 1),
                              <<Positional(Leaf("Int", At(p, 3, 3))),
                                Positional(MatchBlock(At(p, 5, 19),
                                                      matches))>>)))

MatchPrograms ==
    { MatchProgram(arms, c[1], c[2], tail) :
        arms \in 1..2,
        c \in {<<FALSE, FALSE>>, <<TRUE, FALSE>>, <<TRUE, TRUE>>},
        tail \in Tails }

Corpus ==
    LetPrograms \cup PipePrograms \cup ListPrograms \cup NestedListPrograms
    \cup ScriptPrograms \cup NoCodePrograms \cup BlockCommentPrograms
    \cup ListCommentPrograms \cup DefDocPrograms \cup MathPrograms
    \cup BlockArgPrograms \cup RangePrograms \cup ClosurePrograms
    \cup CaretPrograms \cup VarListPrograms \cup RecordPrograms
    \cup SubexpressionPrograms \cup MatchPrograms

\* ------------------------------------------------------------------------
\* Initial state: Formatter::new on one input, under one configuration
\* ------------------------------------------------------------------------

Fresh ==
    /\ pc = "start"
    /\ result = "none"
    /\ output = <<>>
    /\ indent_level = 0
    /\ at_line_start = TRUE
    /\ comments = <<>>
    /\ written_comments = <<>>
    /\ emitted = <<>>
    /\ last_pos = 0
    /\ stack = <<>>
    /\ called = [op |-> "none"]

\* format_inner called as a library function: no executable is running
NoCli ==
    /\ cli = None
    /\ cli_pc = "none"
    /\ config = None
    /\ target_files = <<>>
    /\ invalid_files = <<>>
    /\ diagnostics = <<>>
    /\ results = <<>>
    /\ written = {}
    /\ exit_code = None

Init ==
    /\ \E prog \in Corpus : source = prog.source /\ parsed_block = prog.block
    /\ NoCli
    /\ indent \in 1..MaxIndent
    /\ pass = 1
    /\ first_block = parsed_block
    /\ first_output = <<>>
    /\ line_length = ConfigDefault.line_length
    /\ margin = ConfigDefault.margin
    /\ first_result = None
    /\ Fresh

\* ------------------------------------------------------------------------
\* format_inner
\* ------------------------------------------------------------------------

Input ==
    <<source, parsed_block, indent, pass, first_block, first_output,
      line_length, margin, first_result, cli_vars>>

\* has_garbage: return Err(FormatError::GarbageFound)
FormatInnerGarbage ==
    /\ pc = "start"
    /\ has_garbage(parsed_block)
    /\ pc' = "done"
    /\ result' = "GarbageFound"
    /\ called' = [op |-> "format_inner"]
    /\ UNCHANGED <<Input, output, indent_level, at_line_start, comments,
                   written_comments, last_pos, stack, emitted>>

\* no pipelines and no comments: return Ok(contents.to_vec())
FormatInnerNoCode ==
    /\ pc = "start"
    /\ ~has_garbage(parsed_block)
    /\ parsed_block.pipelines = <<>>
    /\ extract_comments(source) = <<>>
    /\ pc' = "done"
    /\ result' = "Ok"
    /\ output' = source
    /\ called' = [op |-> "format_inner"]
    /\ UNCHANGED <<Input, indent_level, at_line_start, comments,
                   written_comments, last_pos, stack, emitted>>

\* end_pos of the trailing-comment sweep
trailing_end_pos(block) ==
    IF block.pipelines # <<>> /\ Last(block.pipelines).elements # <<>>
      THEN Last(Last(block.pipelines).elements).expr.span.end
      ELSE 0

\* Formatter::new, and the calls format_inner makes on it
format_inner_body(block) ==
    (IF block.pipelines # <<>> /\ block.pipelines[1].elements # <<>>
       THEN <<OpCommentsBefore(block.pipelines[1].elements[1].expr.span.start)>>
       ELSE <<>>)
    \o <<OpBlock(block)>>
    \o (IF trailing_end_pos(block) > 0
          THEN <<OpSetLastPos(trailing_end_pos(block)),
                 OpCommentsBefore(Len(source))>>
          ELSE <<>>)

FormatInner ==
    /\ pc = "start"
    /\ ~has_garbage(parsed_block)
    /\ ~(parsed_block.pipelines = <<>> /\ extract_comments(source) = <<>>)
    /\ pc' = "walk"
    /\ comments' = extract_comments(source)
    /\ written_comments' = [i \in 1..Len(extract_comments(source)) |-> FALSE]
    /\ emitted' = [i \in 1..Len(extract_comments(source)) |-> 0]
    /\ stack' = format_inner_body(parsed_block)
    /\ called' = [op |-> "format_inner"]
    /\ UNCHANGED <<Input, result, output, indent_level, at_line_start, last_pos>>

\* Ok(formatter.finish())
Finish ==
    /\ pc = "walk"
    /\ stack = <<>>
    /\ pc' = "done"
    /\ result' = "Ok"
    /\ called' = [op |-> "finish"]
    /\ UNCHANGED <<Input, output, indent_level, at_line_start, comments,
                   written_comments, last_pos, stack, emitted>>

\* ------------------------------------------------------------------------
\* The steps of the walk
\* ------------------------------------------------------------------------

Top == Head(stack)

Running(name) == pc = "walk" /\ stack # <<>> /\ Top.op = name

Walk == <<Input, pc, result, comments>>

\* a call that changes the Formatter and returns
Return(f) ==
    /\ Becomes(f)
    /\ stack' = Tail(stack)
    /\ called' = Top
    /\ UNCHANGED Walk

\* a call that makes the calls of `body`
Calls(body) ==
    /\ stack' = body \o Tail(stack)
    /\ called' = Top
    /\ UNCHANGED <<Walk, output, indent_level, at_line_start, written_comments,
                   last_pos, emitted>>

DoWrite == Running("write") /\ Return(write(Formatter, Top.s))

DoWriteBytes == Running("write_bytes") /\ Return(write_bytes(Formatter, Top.bytes))

DoNewline == Running("newline") /\ Return(newline(Formatter))

DoSpace == Running("space") /\ Return(space(Formatter))

DoWriteIndent == Running("write_indent") /\ Return(write_indent(Formatter))

IndentIncrease ==
    /\ Running("indent_level += 1")
    /\ Return([Formatter EXCEPT !.indent_level = @ + 1])

\* usize: the subtraction panics at 0
IndentDecrease ==
    /\ Running("indent_level -= 1")
    /\ indent_level > 0
    /\ Return([Formatter EXCEPT !.indent_level = @ - 1])

SetLastPos ==
    /\ Running("last_pos =")
    /\ Return([Formatter EXCEPT !.last_pos = Top.pos])

WriteCommentsBefore ==
    /\ Running("write_comments_before")
    /\ Return(write_comments_before(Formatter, Top.pos))

WriteInlineComment ==
    /\ Running("write_inline_comment")
    /\ Return(write_inline_comment(Formatter, Top.after_pos))

FormatBlock == Running("format_block") /\ Calls(format_block_body(Top.block))

FormatPipeline ==
    Running("format_pipeline") /\ Calls(format_pipeline_body(Top.pipeline))

FormatPipelineElement ==
    /\ Running("format_pipeline_element")
    /\ Calls(<<OpExpression(Top.element.expr)>>)

\* the arms that copy the span, and the arms that call on
FormatExpression ==
    /\ Running("format_expression")
    /\ IF Top.expr.kind \in VerbatimKinds
         THEN Return(write_bytes(Formatter, get_span_content(Top.expr.span)))
         ELSE Calls(format_expression_body(Top.expr))

FormatSignatureExpression ==
    /\ Running("format_signature_expression")
    /\ Return(write_bytes(Formatter, get_span_content(Top.expr.span)))

FormatBlockExpression ==
    /\ Running("format_block_expression")
    /\ Calls(format_block_expression_body(Top.block, Top.with_braces))

FormatList == Running("format_list") /\ Calls(format_list_body(Top.items))

FormatRecord ==
    Running("format_record") /\ Calls(format_record_body(Top.items))

FormatMatchBlock ==
    Running("format_match_block") /\ Calls(format_match_block_body(Top.matches))

FormatMatchPattern ==
    /\ Running("format_match_pattern")
    /\ Return(format_match_pattern(Formatter, Top.pattern))

FormatClosureExpression ==
    /\ Running("format_closure_expression")
    /\ Calls(format_closure_expression_body(Top.block, Top.span))

\* ------------------------------------------------------------------------
\* Formatting the output again
\* ------------------------------------------------------------------------

\* the first run's output, with its final newline, is parsed and formatted
\* under the same configuration
Reformat ==
    /\ pc = "done"
    /\ result = "Ok"
    /\ pass = 1
    /\ \E prog \in Corpus :
          /\ prog.source = add_newline_at_end_of_file(output)
          /\ source' = prog.source
          /\ parsed_block' = prog.block
    /\ pass' = 2
    /\ first_output' = add_newline_at_end_of_file(output)
    /\ pc' = "start"
    /\ result' = "none"
    /\ output' = <<>>
    /\ indent_level' = 0
    /\ at_line_start' = TRUE
    /\ comments' = <<>>
    /\ written_comments' = <<>>
    /\ emitted' = <<>>
    /\ last_pos' = 0
    /\ stack' = <<>>
    /\ called' = [op |-> "none"]
    /\ UNCHANGED <<indent, line_length, margin, first_result, first_block,
                   cli_vars>>

Next ==
    \/ FormatInnerGarbage
    \/ FormatInnerNoCode
    \/ FormatInner
    \/ Finish
    \/ DoWrite
    \/ DoWriteBytes
    \/ DoNewline
    \/ DoSpace
    \/ DoWriteIndent
    \/ IndentIncrease
    \/ IndentDecrease
    \/ SetLastPos
    \/ WriteCommentsBefore
    \/ WriteInlineComment
    \/ FormatBlock
    \/ FormatPipeline
    \/ FormatPipelineElement
    \/ FormatExpression
    \/ FormatSignatureExpression
    \/ FormatBlockExpression
    \/ FormatList
    \/ FormatRecord
    \/ FormatMatchBlock
    \/ FormatMatchPattern
    \/ FormatClosureExpression
    \/ Reformat

Spec == Init /\ [][Next]_vars

\* ------------------------------------------------------------------------
\* format_inner called twice on one source, under two configurations
\* ------------------------------------------------------------------------

LineLengths == {1, ConfigDefault.line_length}

Margins == {0, ConfigDefault.margin}

\* Config::new(indent, line_length, margin), any of them
TwiceInit ==
    /\ \E prog \in Corpus : source = prog.source /\ parsed_block = prog.block
    /\ NoCli
    /\ indent \in 1..MaxIndent
    /\ line_length \in LineLengths
    /\ margin \in Margins
    /\ first_result = None
    /\ pass = 1
    /\ first_block = parsed_block
    /\ first_output = <<>>
    /\ Fresh

\* the second call: a new Formatter on the same source, under a
\* configuration with the same indent and another line_length or margin
FormatInnerAgain ==
    /\ pc = "done"
    /\ pass = 1
    /\ first_result = None
    /\ first_result' = [result |-> result, output |-> output]
    /\ \E l \in LineLengths, m \in Margins :
          /\ <<l, m>> # <<line_length, margin>>
          /\ line_length' = l
          /\ margin' = m
    /\ pc' = "start"
    /\ result' = "none"
    /\ output' = <<>>
    /\ indent_level' = 0
    /\ at_line_start' = TRUE
    /\ comments' = <<>>
    /\ written_comments' = <<>>
    /\ emitted' = <<>>
    /\ last_pos' = 0
    /\ stack' = <<>>
    /\ called' = [op |-> "none"]
    /\ UNCHANGED <<source, parsed_block, indent, pass, first_block,
                   first_output, cli_vars>>

TwiceNext == Next \/ FormatInnerAgain

TwiceSpec == TwiceInit /\ [][TwiceNext]_vars

\* ------------------------------------------------------------------------
\* Configuration (src/config.rs)
\* ------------------------------------------------------------------------

\* nu_protocol::Value, as far as Config::try_from looks at it; the `val` of
\* each variant has a field name of its own
IntValue(n) == [type |-> "Int", val |-> n]
StringValue(s) == [type |-> "String", text |-> s]
RecordValue(entries) == [type |-> "Record", record |-> entries]
OtherValue(type) == [type |-> type]

Entry(key, value) == [key |-> key, value |-> value]

Ok(c) == [ok |-> TRUE, config |-> c]
Err(e) == [ok |-> FALSE, error |-> e]


\* the loop with `*val < 0` in place of `*val <= 0`
RECURSIVE try_from_record_zero(_, _)
try_from_record_zero(entries, c) ==
    IF entries = <<>> THEN Ok(c)
    ELSE LET key == Head(entries).key
             value == Head(entries).value
         IN IF key \in {"indent", "line_length", "margin"}
              THEN IF value.type = "Int"
                     THEN IF value.val < 0
                            THEN Err("InvalidOptionValue")
                            ELSE try_from_record_zero(
                                   Tail(entries), [c EXCEPT ![key] = value.val])
                     ELSE Err("InvalidOptionType")
              ELSE Err("UnknownOption")

\* the `for (key, value) in record.iter()` loop
RECURSIVE try_from_record(_, _)
try_from_record(entries, c) ==
    IF entries = <<>> THEN Ok(c)
    ELSE LET key == Head(entries).key
             value == Head(entries).value
         IN IF key \in {"indent", "line_length", "margin"}
              THEN IF value.type = "Int"
                     THEN IF value.val <= 0
                            THEN Err("InvalidOptionValue")
                            ELSE try_from_record(Tail(entries),
                                                 [c EXCEPT ![key] = value.val])
                     ELSE Err("InvalidOptionType")
              ELSE Err("UnknownOption")

\* impl TryFrom<Value> for Config
try_from(value) ==
    CASE value.type = "String" ->
           IF value.text # <<>> THEN Err("InvalidFormat") ELSE Ok(ConfigDefault)
      [] value.type = "Record" -> try_from_record(value.record, ConfigDefault)
      [] OTHER -> Err("InvalidFormat")

\* a configuration file: whether it can be read, whether it is nuon, and
\* the value nuon::from_nuon gives
ConfigFile(readable, nuon, value) ==
    [readable |-> readable, nuon |-> nuon, value |-> value]

\* read_config falling back to the default when the file is unusable
read_config_lenient(file) ==
    IF ~file.readable \/ ~file.nuon THEN Ok(ConfigDefault)
    ELSE try_from(file.value)

read_config(file) ==
    IF ~file.readable THEN Err("IOError")
    ELSE IF ~file.nuon THEN Err("InvalidFormat")
    ELSE try_from(file.value)

\* ------------------------------------------------------------------------
\* Exit codes and diagnostics (src/main.rs)
\* ------------------------------------------------------------------------

\* ExitCode::code
code(e) ==
    CASE e = "Success" -> 0
      [] e = "CheckFailed" -> 1
      [] e = "Failure" -> 2

Diagnostic(file, d) == [file |-> file, diagnostic |-> d]

\* the counter the loop over `results` keeps for one kind of diagnostic
count(rs, d) == Cardinality({i \in 1..Len(rs) : rs[i].diagnostic = d})

\* the final test with the check-mode branch first
display_diagnostic_check_first(rs, check_mode) ==
    IF rs = <<>> THEN "Success"
    ELSE IF check_mode /\ count(rs, "Reformatted") > 0 THEN "CheckFailed"
    ELSE IF count(rs, "Failure") > 0 THEN "Failure"
    ELSE "Success"

display_diagnostic_and_compute_exit_code(rs, check_mode) ==
    LET already_formatted == count(rs, "AlreadyFormatted")
        reformatted_or_would_reformat == count(rs, "Reformatted")
        failures == count(rs, "Failure")
        at_least_one_failure == failures > 0
    IN IF already_formatted + reformatted_or_would_reformat + failures = 0
         THEN "Success"
       ELSE IF at_least_one_failure THEN "Failure"
       ELSE IF check_mode /\ reformatted_or_would_reformat > 0
         THEN "CheckFailed"
       ELSE "Success"

\* invalid paths left without a diagnostic
handle_invalid_file_silent(files) == SubSeq(files, 1, 0)

handle_invalid_file(files) ==
    [i \in 1..Len(files) |-> Diagnostic(files[i], "Failure")]

\* what the walk of an existing path yields, before the .nu filter: a file is
\* [path, name, nu, content], path being the place of the given path on the
\* command line; a given path that does not exist is [path]
walk(paths, i) ==
    LET file(name, nu, content) ==
          [path |-> i, name |-> name, nu |-> nu, content |-> content]
    IN CASE paths[i] = "dir" -> <<file(1, TRUE, "formatted"),
                                  file(2, FALSE, "text"),
                                  file(3, TRUE, "unformatted")>>
         [] paths[i] = "notes.txt" -> <<file(1, FALSE, "text")>>
         [] OTHER -> <<file(1, TRUE, paths[i])>>

is_nu_file(entry) == entry.nu

exists(path) == path # "missing"

\* discover_nu_files, once the overrides are built
discover_nu_files(paths) ==
    LET all == [i \in 1..Len(paths) |-> i]
        valid_paths == SelectSeq(all, LAMBDA i : exists(paths[i]))
        missing == SelectSeq(all, LAMBDA i : ~exists(paths[i]))
        invalid_paths == [k \in 1..Len(missing) |-> [path |-> missing[k]]]
    IN [nu_files |-> Flatten([k \in 1..Len(valid_paths) |->
                                SelectSeq(walk(paths, valid_paths[k]),
                                          is_nu_file)]),
        invalid_paths |-> invalid_paths]

\* nu_formatter::format_single_file: the diagnostic for one file
format_single_file(file) ==
    CASE file.content = "formatted" -> "AlreadyFormatted"
      [] file.content = "unformatted" -> "Reformatted"
      [] OTHER -> "Failure"

\* ------------------------------------------------------------------------
\* Inputs of the executable: command lines, files on disk, configuration
\* files
\* ------------------------------------------------------------------------

\* what a path of the command line is on disk
PathKinds ==
    {"missing", "dir", "notes.txt", "formatted", "unformatted", "garbage"}

PathLists == UNION { [1..n -> PathKinds] : n \in 1..MaxPaths }

OptionKeys == {"indent", "line_length", "margin", "unknown"}

OptionValues ==
    { IntValue(n) : n \in -1..MaxOption } \cup { StringValue(<<"1", "2", "0">>) }

\* records of at most two options, no key twice
ConfigRecords ==
    { RecordValue(<<>>) }
    \cup { RecordValue(<<Entry(k, v)>>) : k \in OptionKeys, v \in OptionValues }
    \cup { RecordValue(<<Entry(k[1], v1), Entry(k[2], v2)>>) :
             k \in { kk \in OptionKeys \X OptionKeys : kk[1] # kk[2] },
             v1 \in OptionValues, v2 \in OptionValues }

ConfigValues ==
    ConfigRecords
    \cup { StringValue(<<>>), StringValue(<<"s", "o", "m", "e">>), IntValue(1),
           OtherValue("Nothing"), OtherValue("List") }

ConfigFiles ==
    { ConfigFile(FALSE, FALSE, OtherValue("Nothing")),
      ConfigFile(TRUE, FALSE, OtherValue("Nothing")) }
    \cup { ConfigFile(TRUE, TRUE, v) : v \in ConfigValues }

\* the configuration files tried together with every command line
FewConfigFiles ==
    { ConfigFile(FALSE, FALSE, OtherValue("Nothing")),
      ConfigFile(TRUE, FALSE, OtherValue("Nothing")),
      ConfigFile(TRUE, TRUE, RecordValue(<<Entry("indent", IntValue(2))>>)),
      ConfigFile(TRUE, TRUE, RecordValue(<<Entry("unknown", IntValue(1))>>)) }

\* struct Cli after Cli::parse(), with what the run finds: the file
\* find_in_parent_dirs returns, whether the exclude overrides build, and
\* whether the text on stdin formats
CommandLine(files, dry_run, stdin, given, found, overrides_ok, stdin_ok) ==
    [files |-> files, dry_run |-> dry_run, stdin |-> stdin,
     config |-> given, found |-> found, overrides_ok |-> overrides_ok,
     stdin_ok |-> stdin_ok]

CommandLines ==
    { CommandLine(files, dry_run, FALSE, c, None, o, TRUE) :
        files \in PathLists, dry_run \in BOOLEAN,
        c \in FewConfigFiles \cup {None}, o \in BOOLEAN }
    \cup { CommandLine(<<"dir">>, FALSE, TRUE, c, None, TRUE, s) :
             c \in FewConfigFiles \cup {None}, s \in BOOLEAN }
    \cup { CommandLine(<<"dir">>, FALSE, FALSE, c, f, TRUE, TRUE) :
             c \in {None, ConfigFile(FALSE, FALSE, OtherValue("Nothing"))},
             f \in FewConfigFiles }

\* ------------------------------------------------------------------------
\* main (src/main.rs)
\* ------------------------------------------------------------------------

fmt_vars == <<source, parsed_block, indent, pc, result, output, indent_level,
              at_line_start, comments, written_comments, last_pos, stack,
              emitted, called, pass, first_block, first_output, line_length,
              margin, first_result>>

\* the executable is running: format_inner's state is not looked at
NoFormatter ==
    /\ source = <<>>
    /\ parsed_block = Block(<<>>)
    /\ indent = ConfigDefault.indent
    /\ pc = "none"
    /\ result = "none"
    /\ output = <<>>
    /\ indent_level = 0
    /\ at_line_start = TRUE
    /\ comments = <<>>
    /\ written_comments = <<>>
    /\ emitted = <<>>
    /\ last_pos = 0
    /\ stack = <<>>
    /\ called = [op |-> "none"]
    /\ pass = 1
    /\ first_block = Block(<<>>)
    /\ first_output = <<>>
    /\ line_length = ConfigDefault.line_length
    /\ margin = ConfigDefault.margin
    /\ first_result = None

Started ==
    /\ cli_pc = "main"
    /\ config = None
    /\ target_files = <<>>
    /\ invalid_files = <<>>
    /\ diagnostics = <<>>
    /\ results = <<>>
    /\ written = {}
    /\ exit_code = None

CliInit == cli \in CommandLines /\ Started /\ NoFormatter

\* cli.config.or(find_in_parent_dirs(DEFAULT_CONFIG_FILE))
config_file == IF cli.config # None THEN cli.config ELSE cli.found

\* config_file is None, or read_config returns Ok
LoadConfig ==
    /\ cli_pc = "main"
    /\ \/ config_file = None /\ config' = ConfigDefault
       \/ /\ config_file # None
          /\ read_config(config_file).ok
          /\ config' = read_config(config_file).config
    /\ cli_pc' = "configured"
    /\ UNCHANGED <<cli, target_files, invalid_files, diagnostics, results,
                   written, exit_code, fmt_vars>>

\* read_config returns Err: return exit_with_code(ExitCode::Failure)
ConfigFailure ==
    /\ cli_pc = "main"
    /\ config_file # None
    /\ ~read_config(config_file).ok
    /\ cli_pc' = "exited"
    /\ exit_code' = "Failure"
    /\ UNCHANGED <<cli, config, target_files, invalid_files, diagnostics,
                   results, written, fmt_vars>>

\* cli.stdin: format_string
FormatStdin ==
    /\ cli_pc = "configured"
    /\ cli.stdin
    /\ exit_code' = IF cli.stdin_ok THEN "Success" ELSE "Failure"
    /\ cli_pc' = "flush"
    /\ UNCHANGED <<cli, config, target_files, invalid_files, diagnostics,
                   results, written, fmt_vars>>

\* discover_nu_files returns Err: the overrides do not build
DiscoverFailure ==
    /\ cli_pc = "configured"
    /\ ~cli.stdin
    /\ ~cli.overrides_ok
    /\ cli_pc' = "exited"
    /\ exit_code' = "Failure"
    /\ UNCHANGED <<cli, config, target_files, invalid_files, diagnostics,
                   results, written, fmt_vars>>

Discover ==
    /\ cli_pc = "configured"
    /\ ~cli.stdin
    /\ cli.overrides_ok
    /\ target_files' = discover_nu_files(cli.files).nu_files
    /\ invalid_files' = discover_nu_files(cli.files).invalid_paths
    /\ cli_pc' = "discovered"
    /\ UNCHANGED <<cli, config, diagnostics, results, written, exit_code,
                   fmt_vars>>

\* let mut results = handle_invalid_file(invalid_files), and the start of
\* format_files
HandleInvalidFile ==
    /\ cli_pc = "discovered"
    /\ results' = handle_invalid_file(invalid_files)
    /\ diagnostics' = [i \in 1..Len(target_files) |-> None]
    /\ cli_pc' = "format_files"
    /\ UNCHANGED <<cli, config, target_files, invalid_files, written,
                   exit_code, fmt_vars>>

\* format_files: into_par_iter().map(format_single_file), one file in any
\* order; a file that is reformatted is written unless the mode is DryRun
FormatSingleFile ==
    /\ cli_pc = "format_files"
    /\ \E i \in 1..Len(target_files) :
          /\ diagnostics[i] = None
          /\ diagnostics' =
               [diagnostics EXCEPT ![i] =
                  Diagnostic(target_files[i],
                             format_single_file(target_files[i]))]
          /\ written' =
               IF format_single_file(target_files[i]) = "Reformatted"
                    /\ ~cli.dry_run
                 THEN written \cup {target_files[i]}
                 ELSE written
    /\ UNCHANGED <<cli, cli_pc, config, target_files, invalid_files, results,
                   exit_code, fmt_vars>>

\* results.extend(..) and display_diagnostic_and_compute_exit_code
DisplayDiagnostic ==
    /\ cli_pc = "format_files"
    /\ \A i \in 1..Len(target_files) : diagnostics[i] # None
    /\ results' = results \o diagnostics
    /\ exit_code' =
         display_diagnostic_and_compute_exit_code(results \o diagnostics,
                                                  cli.dry_run)
    /\ cli_pc' = "flush"
    /\ UNCHANGED <<cli, config, target_files, invalid_files, diagnostics,
                   written, fmt_vars>>

\* stdout is flushed, then exit_with_code(exit_code)
Exit ==
    /\ cli_pc = "flush"
    /\ cli_pc' = "exited"
    /\ UNCHANGED <<cli, config, target_files, invalid_files, diagnostics,
                   results, written, exit_code, fmt_vars>>

CliNext ==
    \/ LoadConfig
    \/ ConfigFailure
    \/ FormatStdin
    \/ DiscoverFailure
    \/ Discover
    \/ HandleInvalidFile
    \/ FormatSingleFile
    \/ DisplayDiagnostic
    \/ Exit

CliSpec == CliInit /\ [][CliNext]_vars

\* read_config on every configuration file, for one command line
ConfigInit ==
    /\ \E f \in ConfigFiles :
          cli = CommandLine(<<"formatted">>, FALSE, FALSE, f, None, TRUE, TRUE)
    /\ Started
    /\ NoFormatter

ConfigNext ==
    \/ LoadConfig
    \/ ConfigFailure

ConfigSpec == ConfigInit /\ [][ConfigNext]_vars

\* ------------------------------------------------------------------------
\* extract_comments on any buffer
\* ------------------------------------------------------------------------

\* the bytes extract_comments tells apart, and one that it does not
SourceBytes == {HASH, DQ, SQ, BSL, NL, "a"}

Buffers == UNION { [1..n -> SourceBytes] : n \in 0..MaxSource }

ExtractInit ==
    /\ source \in Buffers
    /\ parsed_block = Block(<<>>)
    /\ indent = ConfigDefault.indent
    /\ pc = "extract"
    /\ result = "none"
    /\ output = <<>>
    /\ indent_level = 0
    /\ at_line_start = TRUE
    /\ comments = <<>>
    /\ written_comments = <<>>
    /\ emitted = <<>>
    /\ last_pos = 0
    /\ stack = <<>>
    /\ called = [op |-> "none"]
    /\ pass = 1
    /\ first_block = parsed_block
    /\ first_output = <<>>
    /\ line_length = ConfigDefault.line_length
    /\ margin = ConfigDefault.margin
    /\ first_result = None
    /\ NoCli

\* Formatter::new: `comments: extract_comments(source)`
ExtractComments ==
    /\ pc = "extract"
    /\ pc' = "extracted"
    /\ comments' = extract_comments(source)
    /\ called' = [op |-> "extract_comments"]
    /\ UNCHANGED <<Input, result, output, indent_level, at_line_start,
                   written_comments, last_pos, stack, emitted>>

ExtractSpec == ExtractInit /\ [][ExtractComments]_vars

\* ------------------------------------------------------------------------
\* space() called twice on any Formatter
\* ------------------------------------------------------------------------

\* the bytes space() tells apart, and one that it does not
OutputBytes == {SP, NL, TAB, "(", "[", "a"}

Outputs == UNION { [1..n -> OutputBytes] : n \in 0..MaxOutput }

\* a Formatter on the source `# a`, with any output so far; at_line_start
\* is true only on an empty output or after a newline
SpaceInit ==
    /\ source = Cmt("a")
    /\ parsed_block = Block(<<>>)
    /\ indent \in 1..MaxIndent
    /\ pc = "walk"
    /\ result = "none"
    /\ output \in Outputs
    /\ indent_level \in 0..1
    /\ at_line_start \in BOOLEAN
    /\ IF output = <<>> THEN TRUE ELSE at_line_start => Last(output) = NL
    /\ comments = extract_comments(source)
    /\ written_comments \in [1..1 -> BOOLEAN]
    /\ emitted = [i \in 1..1 |-> IF written_comments[i] THEN 1 ELSE 0]
    /\ last_pos \in 0..1
    /\ stack = <<OpSpace, OpSpace>>
    /\ called = [op |-> "none"]
    /\ pass = 1
    /\ first_block = parsed_block
    /\ first_output = <<>>
    /\ line_length = ConfigDefault.line_length
    /\ margin = ConfigDefault.margin
    /\ first_result = None
    /\ NoCli

SpaceSpec == SpaceInit /\ [][DoSpace]_vars

\* ------------------------------------------------------------------------
\* Properties
\* ------------------------------------------------------------------------

Returned == pc = "done" /\ result = "Ok"

\* the source bytes of a span
SourceAt(span) == SubSeq(source, span.start + 1, span.end)

RECURSIVE JoinWith(_, _)
JoinWith(parts, sep) ==
    IF parts = <<>> THEN <<>>
    ELSE IF Len(parts) = 1 THEN parts[1]
    ELSE parts[1] \o sep \o JoinWith(Tail(parts), sep)

\* the expression kinds whose arm of format_expression copies the span
LiteralKinds ==
    {"Int", "Float", "Bool", "Nothing", "DateTime", "String", "RawString",
     "Binary", "Filepath", "Directory", "GlobPattern", "Var", "Operator",
     "StringInterpolation", "GlobInterpolation"}

\* the single expression of a program that is one statement
OnlyExpr == parsed_block.pipelines[1].elements[1].expr

OneStatement ==
    /\ Len(parsed_block.pipelines) = 1
    /\ Len(parsed_block.pipelines[1].elements) = 1

\* C1 (comment conservation): when format_inner returns Ok for a source that
\* has code, every comment extract_comments finds in the source has been
\* written: each flag of written_comments is true.  (C5 is the same statement
\* for a source without code.)
C1_CommentConservation ==
    (Returned /\ parsed_block.pipelines # <<>>) =>
        /\ Len(written_comments) = Len(extract_comments(source))
        /\ \A i \in 1..Len(written_comments) : written_comments[i]

\* a Garbage expression anywhere under an expression, or in a block
RECURSIVE HoldsGarbage(_)
HoldsGarbage(e) ==
    LET in_block(b) ==
          \E i \in 1..Len(b.pipelines) :
             \E j \in 1..Len(b.pipelines[i].elements) :
                HoldsGarbage(b.pipelines[i].elements[j].expr)
    IN
    CASE e.kind = "Garbage" -> TRUE
      [] e.kind = "Call" ->
           \E i \in 1..Len(e.arguments) :
              LET a == e.arguments[i] IN
              IF a.arg = "Named" THEN a.value # None /\ HoldsGarbage(a.value)
              ELSE HoldsGarbage(a.expr)
      [] e.kind = "ExternalCall" ->
           HoldsGarbage(e.head)
             \/ \E i \in 1..Len(e.args) : HoldsGarbage(e.args[i].expr)
      [] e.kind = "BinaryOp" ->
           HoldsGarbage(e.lhs) \/ HoldsGarbage(e.op) \/ HoldsGarbage(e.rhs)
      [] e.kind \in {"Block", "Closure", "Subexpression"} -> in_block(e.block)
      [] e.kind = "List" ->
           \E i \in 1..Len(e.items) : HoldsGarbage(e.items[i].expr)
      [] e.kind = "FullCellPath" -> HoldsGarbage(e.head)
      [] e.kind = "Keyword" -> HoldsGarbage(e.expr)
      [] OTHER -> FALSE

ParsesClean(block) ==
    \A i \in 1..Len(block.pipelines) :
       \A j \in 1..Len(block.pipelines[i].elements) :
          ~HoldsGarbage(block.pipelines[i].elements[j].expr)

\* C2 (idempotence): for an input that parses without Garbage, formatting
\* the text that format returned gives that text back: the second run
\* succeeds and, with its final newline, its output equals the first run's.
C2_Idempotence ==
    (pass = 2 /\ pc = "done" /\ ParsesClean(first_block)) =>
        /\ result = "Ok"
        /\ add_newline_at_end_of_file(output) = first_output

\* C3 (garbage rejection): the Garbage arm of format_expression is never
\* reached: a tree that holds a Garbage expression is refused by has_garbage
\* before the walk starts.
C3_GarbageRejected ==
    ~(Running("format_expression") /\ Top.expr.kind = "Garbage")

\* C4 (trailing newline): the text format returns on success ends in exactly
\* one newline.
C4_TrailingNewline ==
    Returned =>
        LET text == add_newline_at_end_of_file(output) IN
        /\ Last(text) = NL
        /\ Len(text) >= 2 => text[Len(text) - 1] # NL

\* C5 (comment-only input): when the source has comments and the parse has no
\* pipelines, the output is not blank and holds every one of the comments.
C5_CommentOnlyKept ==
    (Returned /\ parsed_block.pipelines = <<>>
       /\ extract_comments(source) # <<>>) =>
        /\ output # <<>>
        /\ Len(emitted) = Len(extract_comments(source))
        /\ \A i \in 1..Len(emitted) : emitted[i] >= 1

\* C6 (no duplicate comments): during a formatting call a comment writer
\* emits a comment only when its flag is false and sets the flag as it does;
\* a flag that is true stays true; so no comment is emitted more than once.
C6_Step ==
    (pc = "walk" /\ pc' # "start") =>
        \A i \in 1..Len(comments) :
            /\ written_comments[i] => written_comments'[i]
            /\ emitted'[i] # emitted[i] =>
                 /\ ~written_comments[i]
                 /\ written_comments'[i]
                 /\ emitted'[i] = emitted[i] + 1

C7_Step ==
    (Running("format_expression") /\ Top.expr.kind \in LiteralKinds) =>
        output' = output
                  \o (IF at_line_start THEN Spaces(indent * indent_level)
                      ELSE <<>>)
                  \o SubSeq(source, Top.expr.span.start + 1, Top.expr.span.end)

C7_LiteralFidelity == [][C7_Step]_vars

\* a literal has just been written at the start of an indented line
C7_Witness ==
    /\ pc = "walk"
    /\ called.op = "format_expression"
    /\ called.expr.kind \in LiteralKinds
    /\ indent_level > 0
    /\ LET bytes == SourceAt(called.expr.span)
           pad == indent * indent_level
           n == Len(output)
       IN /\ Len(bytes) >= 2
          /\ n > Len(bytes) + pad
          /\ SubSeq(output, n - Len(bytes) + 1, n) = bytes
          /\ SubSeq(output, n - Len(bytes) - pad + 1, n - Len(bytes))
               = Spaces(pad)
          /\ output[n - Len(bytes) - pad] = NL

\* a command whose head and arguments are all copied from the source
IsPlainCommand(e) ==
    /\ e.kind = "ExternalCall"
    /\ e.head.kind \in LiteralKinds
    /\ \A i \in 1..Len(e.args) :
          e.args[i].arg = "Regular" /\ e.args[i].expr.kind \in LiteralKinds

PlainCommand(e) ==
    JoinWith(<<SourceAt(e.head.span)>>
             \o [i \in 1..Len(e.args) |-> SourceAt(e.args[i].expr.span)],
             <<SP>>)

IsPlainPipeline ==
    /\ Len(parsed_block.pipelines) = 1
    /\ Len(parsed_block.pipelines[1].elements) >= 2
    /\ \A i \in 1..Len(parsed_block.pipelines[1].elements) :
          IsPlainCommand(parsed_block.pipelines[1].elements[i].expr)

\* C8 (pipe canonicalization): a pipeline of two or more elements is written
\* as its elements in source order with exactly " | " between neighbours,
\* whatever spacing was around "|" in the source.
C8_PipeCanonical ==
    (Returned /\ comments = <<>> /\ IsPlainPipeline) =>
        output = JoinWith([i \in 1..Len(parsed_block.pipelines[1].elements) |->
                             PlainCommand(
                               parsed_block.pipelines[1].elements[i].expr)],
                          <<SP, "|", SP>>)

\* a three-element pipeline whose source had no space around "|"
C8_Witness ==
    /\ Returned
    /\ pass = 1
    /\ IsPlainPipeline
    /\ Len(parsed_block.pipelines[1].elements) = 3
    /\ Len(output) = Len(source) + 4

\* a let, let-env, mut or const of a name and a literal value
IsPlainLet ==
    /\ OneStatement
    /\ OnlyExpr.kind = "Call"
    /\ OnlyExpr.decl_name \in {"let", "let-env", "mut", "const"}
    /\ Len(OnlyExpr.arguments) = 2
    /\ OnlyExpr.arguments[1].arg = "Positional"
    /\ OnlyExpr.arguments[1].expr.kind = "VarDecl"
    /\ OnlyExpr.arguments[2].arg = "Positional"
    /\ LET v == OnlyExpr.arguments[2].expr IN
       \/ v.kind \in LiteralKinds
       \/ /\ v.kind = "Block"
          /\ Len(v.block.pipelines) = 1
          /\ Len(v.block.pipelines[1].elements) = 1
          /\ v.block.pipelines[1].elements[1].expr.kind \in LiteralKinds

\* C9 (let-like canonicalization): let, let-env, mut and const are written
\* as the head, one space, the name, " = " and the value, whatever spacing the
\* source had.
C9_LetCanonical ==
    (Returned /\ comments = <<>> /\ IsPlainLet) =>
        output = SourceAt(OnlyExpr.head) \o <<SP>>
                 \o SourceAt(OnlyExpr.arguments[1].expr.span)
                 \o <<SP, "=", SP>>
                 \o SourceAt(OnlyExpr.arguments[2].expr.span)

\* a let whose source had more than one space in each gap
C9_Witness ==
    /\ Returned
    /\ pass = 1
    /\ IsPlainLet
    /\ OnlyExpr.decl_name = "let"
    /\ Len(source) >= Len(output) + 3

\* a list of one or more primitive items
IsPlainList(e) ==
    /\ e.kind = "List"
    /\ e.items # <<>>
    /\ \A i \in 1..Len(e.items) :
          /\ e.items[i].item = "Item"
          /\ e.items[i].expr.kind
               \in {"Int", "Float", "Bool", "String", "RawString", "Nothing",
                    "Var", "Filepath", "Directory", "GlobPattern", "DateTime"}

\* the layout of such a list at an indentation level
ListText(items, level) ==
    LET texts == [i \in 1..Len(items) |-> SourceAt(items[i].expr.span)] IN
    IF Len(items) <= 5
      THEN <<"[">> \o JoinWith(texts, <<",", SP>>) \o <<"]">>
      ELSE <<"[", NL>>
           \o Flatten([i \in 1..Len(items) |->
                         Spaces(indent * (level + 1)) \o texts[i] \o <<NL>>])
           \o Spaces(indent * level) \o <<"]">>

\* the list of a program that is one list, bare or in an empty cell path
Unwrapped(e) ==
    IF e.kind = "FullCellPath" /\ e.tail = <<>> THEN e.head ELSE e

IsListStatement == OneStatement /\ IsPlainList(Unwrapped(OnlyExpr))

\* `if <cond> { <command>; <list> }`
IsListInBlock ==
    /\ OneStatement
    /\ OnlyExpr.kind = "Call"
    /\ OnlyExpr.decl_name = "if"
    /\ Len(OnlyExpr.arguments) = 2
    /\ OnlyExpr.arguments[1].expr.kind \in LiteralKinds
    /\ OnlyExpr.arguments[2].expr.kind = "Block"
    /\ LET body == OnlyExpr.arguments[2].expr.block IN
       /\ Len(body.pipelines) = 2
       /\ Len(body.pipelines[1].elements) = 1
       /\ IsPlainCommand(body.pipelines[1].elements[1].expr)
       /\ Len(body.pipelines[2].elements) = 1
       /\ IsPlainList(Unwrapped(body.pipelines[2].elements[1].expr))

ListInBlock ==
    Unwrapped(OnlyExpr.arguments[2].expr.block.pipelines[2].elements[1].expr)

\* C10 (list layout): a list of primitive items is written on one line,
\* items joined by ", ", when it has at most 5 items; with 6 or more it is
\* written one item per line, each at one indent level deeper, and "]" on a
\* line of its own at the enclosing indentation.
C10_ListThreshold ==
    (Returned /\ comments = <<>>) =>
        /\ IsListStatement => output = ListText(Unwrapped(OnlyExpr).items, 0)
        /\ IsListInBlock =>
             output = SourceAt(OnlyExpr.head) \o <<SP>>
                      \o SourceAt(OnlyExpr.arguments[1].expr.span)
                      \o <<SP, "{", NL>> \o Spaces(indent)
                      \o PlainCommand(OnlyExpr.arguments[2].expr.block
                                        .pipelines[1].elements[1].expr)
                      \o <<NL>> \o Spaces(indent)
                      \o ListText(ListInBlock.items, 1)
                      \o <<NL, "}">>

\* a list of six or more items inside a block has been written
C10_Witness ==
    /\ Returned
    /\ IsListInBlock
    /\ Len(ListInBlock.items) >= 6

\* `<head> <cond> { <command> }`: a call whose block argument is one pipeline
\* of one plain command
IsSimpleBlockCall ==
    /\ OneStatement
    /\ OnlyExpr.kind = "Call"
    /\ OnlyExpr.decl_name = "if"
    /\ Len(OnlyExpr.arguments) = 2
    /\ OnlyExpr.arguments[2].expr.kind = "Block"
    /\ LET body == OnlyExpr.arguments[2].expr.block IN
       /\ Len(body.pipelines) = 1
       /\ Len(body.pipelines[1].elements) = 1
       /\ IsPlainCommand(body.pipelines[1].elements[1].expr)

\* C11 (brace simplicity): a braced block of exactly one pipeline of one
\* element without a complex sub-construct is written on one output line: the
\* output has no newline between the block's "{" and its "}".
C11_BraceSimplicity ==
    (Returned /\ IsSimpleBlockCall) =>
        \E open \in 1..Len(output) : \E close \in open..Len(output) :
            /\ output[open] = "{"
            /\ output[close] = "}"
            /\ \A k \in open..close : output[k] # NL

HasDiagnostic(d) == \E r \in 1..Len(results) : results[r].diagnostic = d

\* main has called display_diagnostic_and_compute_exit_code
Displayed == cli # None /\ cli_pc = "flush" /\ ~cli.stdin

GivenValue == cli.config.value

KnownOptions == {"indent", "line_length", "margin"}

PositiveInt(v) == v.type = "Int" /\ v.val > 0

ConfigParsed == cli # None /\ cli_pc # "main" /\ cli.config # None
                  /\ cli.config.readable /\ cli.config.nuon

ConfigUnusable ==
    /\ cli # None
    /\ config_file # None
    /\ \/ ~config_file.readable
       \/ ~config_file.nuon
       \/ /\ config_file.value.type = "Record"
          /\ \E i \in 1..Len(config_file.value.record) :
                config_file.value.record[i].key \notin KnownOptions

\* C15 (configuration failure): when the configuration file cannot be read
\* or is invalid, main exits with code 2 and nothing is ever discovered,
\* formatted or written in that run.
C15_ConfigFailureFirst ==
    ConfigUnusable =>
        /\ cli_pc \in {"main", "exited"}
        /\ config = None
        /\ target_files = <<>>
        /\ invalid_files = <<>>
        /\ diagnostics = <<>>
        /\ results = <<>>
        /\ written = {}
        /\ cli_pc = "exited" => code(exit_code) = 2

\* the run has exited on its configuration with a file to format at hand
C15_Witness ==
    /\ ConfigUnusable
    /\ cli_pc = "exited"
    /\ ~cli.dry_run
    /\ \E i \in 1..Len(cli.files) : cli.files[i] = "unformatted"

\* the last bytes of the output are a comment that has been emitted
EndsWithComment ==
    \E i \in 1..Len(comments) :
        /\ emitted[i] >= 1
        /\ Len(output) >= Len(comments[i].content)
        /\ SubSeq(output, Len(output) - Len(comments[i].content) + 1,
                  Len(output)) = comments[i].content

C16_Step ==
    (pc = "walk" /\ pc' = "walk" /\ EndsWithComment
       /\ Len(output') > Len(output)) =>
        output'[Len(output) + 1] = NL

\* C16 (no code after a comment): once a comment has been written to the
\* output, the next byte written, if any, is a newline; no closing brace or
\* parenthesis and no following element is appended to the comment's line.
C16_NoCodeAfterComment == [][C16_Step]_vars

RECURSIVE Occurrences(_, _)
Occurrences(bytes, b) ==
    IF bytes = <<>> THEN 0
    ELSE (IF Head(bytes) = b THEN 1 ELSE 0) + Occurrences(Tail(bytes), b)

\* the positional block arguments of the statement, a call
BlockArguments ==
    SelectSeq(OnlyExpr.arguments,
              LAMBDA a : a.arg = "Positional" /\ a.expr.kind = "Block")

\* C17 (block delimiters): for a call of a command that is not let-like, a
\* positional argument that is a block is rendered between "{" and "}",
\* for a regular command as for def, if, try, for, while, loop and module:
\* the output opens and closes a brace for each such argument.
C17_BlockDelimiters ==
    (Returned /\ OneStatement /\ OnlyExpr.kind = "Call"
       /\ OnlyExpr.decl_name \notin {"let", "let-env", "mut", "const"}) =>
        /\ Occurrences(output, "{") >= Len(BlockArguments)
        /\ Occurrences(output, "}") >= Len(BlockArguments)

\* the statement is a range with a start, a step and an end
IsSteppedRange ==
    /\ OneStatement
    /\ OnlyExpr.kind = "Range"
    /\ OnlyExpr.from # None
    /\ OnlyExpr.next # None
    /\ OnlyExpr.to # None

\* C18 (range): a range with a step is rendered as its start, the range
\* operator, the step, the operator again, and the end: the operator is
\* written twice and no other separator is written.
C18_RangeStep ==
    (Returned /\ IsSteppedRange) =>
        LET op == SourceAt(OnlyExpr.operator) IN
        output = SourceAt(OnlyExpr.from.span) \o op
                   \o SourceAt(OnlyExpr.next.span) \o op
                   \o SourceAt(OnlyExpr.to.span)

\* the statement is a command whose last argument is a closure, and the
\* closure's text starts with "{|" or "{ |" and holds a second "|"
ClosureText == SourceAt(Last(OnlyExpr.arguments).expr.span)

Bars == { i \in 1..Len(ClosureText) : ClosureText[i] = "|" }

IsClosureWithParams ==
    /\ OneStatement
    /\ OnlyExpr.kind = "Call"
    /\ OnlyExpr.decl_name = "do"
    /\ Last(OnlyExpr.arguments).expr.kind = "Closure"
    /\ \/ SubSeq(ClosureText, 1, 2) = <<"{", "|">>
       \/ SubSeq(ClosureText, 1, 3) = <<"{", SP, "|">>
    /\ Cardinality(Bars) >= 2

\* the bytes strictly between the first two bars, without the white space
\* at either end
TrimmedParams ==
    LET first == CHOOSE i \in Bars : \A j \in Bars : i <= j
        second == CHOOSE i \in Bars \ {first} :
                     \A j \in Bars \ {first} : i <= j
        inner == { i \in (first + 1)..(second - 1) :
                     ClosureText[i] \notin {SP, TAB, NL} }
    IN IF inner = {} THEN <<>>
       ELSE SubSeq(ClosureText,
                   CHOOSE i \in inner : \A j \in inner : i <= j,
                   CHOOSE i \in inner : \A j \in inner : i >= j)

\* C19 (closure parameters): for a closure whose text starts with "{|" or
\* "{ |" and holds a second "|", format_closure_expression writes "{|", the
\* bytes strictly between the first and the second "|" with white space
\* trimmed at both ends, then "| ": `{|x| ..}` and `{ |x| ..}` both come out
\* starting with `{|x| `.
C19_ClosureParams ==
    (Returned /\ IsClosureWithParams) =>
        LET start == SourceAt(OnlyExpr.head) \o <<SP, "{", "|">>
                       \o TrimmedParams \o <<"|", SP>>
        IN /\ Len(output) >= Len(start)
           /\ SubSeq(output, 1, Len(start)) = start

\* the statement is an external call whose head stands right after a caret
IsCaretCall ==
    /\ OneStatement
    /\ OnlyExpr.kind = "ExternalCall"
    /\ OnlyExpr.head.span.start >= 1
    /\ source[OnlyExpr.head.span.start] = "^"

\* C20 (caret): an external call whose head is immediately preceded by "^"
\* in the source is rendered starting with "^" followed by the head.
C20_CaretKept ==
    (Returned /\ IsCaretCall) =>
        LET start == <<"^">> \o SourceAt(OnlyExpr.head.span)
        IN /\ Len(output) >= Len(start)
           /\ SubSeq(output, 1, Len(start)) = start

C21_Step == pc = "walk" => last_pos' >= last_pos

\* C21 (comment cursor): last_pos never decreases during a formatting call;
\* no step of the walk (format_block, write_inline_comment, the sweep of
\* trailing comments in format_inner) gives last_pos a smaller value than
\* the one it holds.
C21_CursorForward == [][C21_Step]_vars

\* the comments a step emits, and the bytes it appends to the output
NewlyEmitted == { i \in 1..Len(comments) : emitted'[i] > emitted[i] }

Appended == SubSeq(output', Len(output) + 1, Len(output'))

\* the appended bytes hold the newly emitted comments in the order of their
\* starts in the source, and every comment emitted earlier starts before them
C22_Step ==
    (pc = "walk" /\ pc' = "walk") =>
        /\ \A i \in NewlyEmitted : \A j \in 1..Len(comments) :
              emitted[j] >= 1 => comments[j].span.start < comments[i].span.start
        /\ \E at \in [NewlyEmitted -> 1..Len(Appended)] :
              /\ \A i \in NewlyEmitted :
                    /\ at[i] + Len(comments[i].content) - 1 <= Len(Appended)
                    /\ SubSeq(Appended, at[i],
                              at[i] + Len(comments[i].content) - 1)
                         = comments[i].content
              /\ \A i, j \in NewlyEmitted :
                    comments[i].span.start < comments[j].span.start
                      => at[i] < at[j]

\* C22 (comment order): comments are written in the order of their starts
\* in the source: when comment A starts before comment B and both are
\* written, A is written before B, whichever of the leading scans, the
\* inline comments, the nested blocks and the final sweep writes them.
C22_CommentOrder == [][C22_Step]_vars

\* three comments have been written, by a leading scan, as an inline comment
\* and by the final sweep
C22_Witness ==
    /\ Returned
    /\ Cardinality({ i \in 1..Len(comments) : emitted[i] >= 1 }) >= 3
    /\ \E i \in 2..Len(comments) :
          /\ emitted[i] >= 1
          /\ emitted[i - 1] >= 1
          /\ output[Len(output)] = NL

\* where a reader of the source stands after its first k bytes: in "code",
\* in a "comment", in a string opened by DQ or SQ, or after a backslash in
\* such a string; open is the place (from 1) of the quote that opened it
RECURSIVE Reading(_)
Reading(k) ==
    IF k = 0 THEN [in |-> "code", quote |-> DQ, open |-> 0]
    ELSE LET before == Reading(k - 1)
             b == source[k]
         IN CASE before.in = "code" ->
                   IF b \in {DQ, SQ}
                     THEN [in |-> "string", quote |-> b, open |-> k]
                   ELSE IF b = HASH THEN [before EXCEPT !.in = "comment"]
                   ELSE before
              [] before.in = "comment" ->
                   IF b = NL THEN [before EXCEPT !.in = "code"] ELSE before
              [] before.in = "string" ->
                   IF b = BSL THEN [before EXCEPT !.in = "escape"]
                   ELSE IF b = before.quote THEN [before EXCEPT !.in = "code"]
                   ELSE before
              [] before.in = "escape" -> [before EXCEPT !.in = "string"]

\* the "#" bytes outside every string and outside every earlier comment
CommentStarts ==
    { k \in 1..Len(source) : source[k] = HASH /\ Reading(k - 1).in = "code" }

\* the end of the line that holds byte k: the index, from 0, of the next
\* newline, or the length of the source
EndOfLine(k) ==
    IF \E n \in k..Len(source) : source[n] = NL
      THEN (CHOOSE n \in k..Len(source) :
              source[n] = NL /\ \A j \in k..(n - 1) : source[j] # NL) - 1
      ELSE Len(source)

\* C23 (comment extraction): extract_comments returns, in strictly
\* increasing order of start and without overlap, exactly one comment for
\* each "#" outside a quoted string (a backslash in a string escapes the
\* next byte) and outside an earlier comment; each span runs from its "#"
\* to the next newline, exclusive, or to the end of the buffer; the bytes
\* stored are source[span]; after an unterminated quote there is no comment.
C23_Extraction ==
    pc = "extracted" =>
        /\ { comments[i].span.start + 1 : i \in 1..Len(comments) }
             = CommentStarts
        /\ Len(comments) = Cardinality(CommentStarts)
        /\ \A i \in 1..Len(comments) :
              /\ comments[i].span.end = EndOfLine(comments[i].span.start + 1)
              /\ comments[i].content = SourceAt(comments[i].span)
              /\ i > 1 => /\ comments[i - 1].span.start < comments[i].span.start
                          /\ comments[i - 1].span.end <= comments[i].span.start
        /\ Reading(Len(source)).in \in {"string", "escape"} =>
              \A i \in 1..Len(comments) :
                 comments[i].span.end < Reading(Len(source)).open

\* a "#" in a string is passed over and a comment follows the string, up to
\* a newline
C23_Witness ==
    /\ pc = "extracted"
    /\ Len(comments) = 1
    /\ \E k \in 1..Len(source) :
          source[k] = HASH /\ Reading(k - 1).in = "string"
    /\ comments[1].span.end < Len(source)

\* the statement is a list of at most 5 items, each a variable that parsed
\* as a cell path with an empty tail
IsCellPathVarList ==
    /\ OneStatement
    /\ OnlyExpr.kind = "List"
    /\ Len(OnlyExpr.items) <= 5
    /\ \A i \in 1..Len(OnlyExpr.items) :
          /\ OnlyExpr.items[i].expr.kind = "FullCellPath"
          /\ OnlyExpr.items[i].expr.tail = <<>>
          /\ OnlyExpr.items[i].expr.head.kind = "Var"

\* C24 (simple items): the test of "all simple" accepts a cell path with an
\* empty tail whose head is a numeric, bool, string, variable, path-like or
\* date expression, as it accepts those themselves; so a list of at most 5
\* variables that parse as empty-tail cell paths is rendered on one line.
C24_SimpleItems ==
    (Returned /\ IsCellPathVarList) =>
        /\ \A i \in 1..Len(OnlyExpr.items) :
              is_simple_expr(OnlyExpr.items[i].expr)
        /\ \A k \in 1..Len(output) : output[k] # NL

\* the statement is a record, or a list whose one item is a record
IsRecordStatement ==
    /\ OneStatement
    /\ \/ OnlyExpr.kind = "Record"
       \/ /\ OnlyExpr.kind = "List"
          /\ Len(OnlyExpr.items) = 1
          /\ OnlyExpr.items[1].expr.kind = "Record"

RecordNested == OnlyExpr.kind = "List"

TheRecord == IF RecordNested THEN OnlyExpr.items[1].expr ELSE OnlyExpr

\* numeric, bool, string, variable, path-like or date, or a cell path with
\* an empty tail over one of those
SimpleClass ==
    {"Int", "Float", "Bool", "String", "RawString", "Var", "Filepath",
     "Directory", "GlobPattern", "DateTime"}

IsSimpleItem(e) ==
    \/ e.kind \in SimpleClass
    \/ e.kind = "FullCellPath" /\ e.tail = <<>> /\ e.head.kind \in SimpleClass

\* inside another structure, with at least 2 items, and with a value that is
\* a record, list, closure, block, variable or full cell path
NestedAndComplex ==
    /\ RecordNested
    /\ Len(TheRecord.items) >= 2
    /\ \E i \in 1..Len(TheRecord.items) :
          TheRecord.items[i].value.kind
            \in {"Record", "List", "Closure", "Block", "Var", "FullCellPath"}

MayBeInline ==
    /\ \A i \in 1..Len(TheRecord.items) :
          /\ IsSimpleItem(TheRecord.items[i].key)
          /\ IsSimpleItem(TheRecord.items[i].value)
    /\ Len(TheRecord.items) <= 3
    /\ ~NestedAndComplex

\* what the output holds from the record's "{" to its "}"
RecordOutput ==
    LET braces == { k \in 1..Len(output) : output[k] \in {"{", "}"} }
    IN SubSeq(output, CHOOSE k \in braces : \A j \in braces : k <= j,
              CHOOSE k \in braces : \A j \in braces : k >= j)

\* the pairs as `key: value`
PairTexts ==
    [i \in 1..Len(TheRecord.items) |->
       SourceAt(TheRecord.items[i].key.span) \o <<":", SP>>
         \o SourceAt(TheRecord.items[i].value.span)]

IsSubexpression ==
    /\ OneStatement
    /\ OnlyExpr.kind = "FullCellPath"
    /\ OnlyExpr.tail = <<>>
    /\ OnlyExpr.head.kind = "Subexpression"

\* one pipeline of one element without a complex sub-construct
IsSimpleBody(block) ==
    /\ Len(block.pipelines) = 1
    /\ Len(block.pipelines[1].elements) = 1
    /\ IsPlainCommand(block.pipelines[1].elements[1].expr)

\* C26 (subexpression layout): a subexpression is rendered inline, as "("
\* + content + ")", exactly when its block has one pipeline of one element
\* without a complex sub-construct, and otherwise over several lines with
\* the content at one more indent level.
C26_SubexpressionLayout ==
    (Returned /\ IsSubexpression) =>
        LET inline == \A k \in 1..Len(output) : output[k] # NL
        IN /\ output[1] = "("
           /\ Last(output) = ")"
           /\ inline <=> IsSimpleBody(OnlyExpr.head.block)

StartsWith(bytes, prefix) ==
    Len(bytes) >= Len(prefix) /\ SubSeq(bytes, 1, Len(prefix)) = prefix

\* the indentation due at the current level
Pad == Spaces(indent * indent_level)

C27_Step ==
    (pc = "walk" /\ pc' = "walk" /\ stack # <<>>) =>
        LET lead == IF at_line_start THEN Pad ELSE <<>> IN
        /\ StartsWith(output', output)
        /\ Top.op = "write" =>
             Appended = lead \o Top.s /\ ~at_line_start'
        /\ Top.op = "write_bytes" =>
             Appended = lead \o Top.bytes /\ ~at_line_start'
        /\ (Top.op = "write_comments_before" /\ NewlyEmitted # {}) =>
             LET first == CHOOSE i \in NewlyEmitted :
                             \A j \in NewlyEmitted : i <= j
             IN /\ at_line_start =>
                     StartsWith(Appended, Pad \o comments[first].content)
                /\ Last(output') = NL
                /\ at_line_start'
        /\ Top.op = "newline" =>
             output' = Append(output, NL) /\ at_line_start'
        /\ at_line_start' # at_line_start =>
             IF at_line_start' THEN Last(output') = NL
             ELSE StartsWith(Appended, Pad)

\* C27 (indentation): when write, write_bytes or write_comments_before
\* emits output while at_line_start is true, exactly config.indent x
\* indent_level spaces are written first and at_line_start is cleared (a
\* comment's closing newline sets it again); newline appends "\n" and sets
\* at_line_start; at_line_start changes in no other way, so while it is
\* true the output is empty or ends with "\n".
C27_Indentation ==
    /\ [](at_line_start => (output = <<>> \/ Last(output) = NL))
    /\ [][C27_Step]_vars

\* inside a nested structure, a write has started a line with its
\* indentation
C27_Witness ==
    /\ pc = "walk"
    /\ called.op \in {"write", "write_bytes"}
    /\ indent_level >= 1
    /\ ~at_line_start
    /\ Len(output) > Len(Pad) + 1
    /\ \E k \in 1..(Len(output) - Len(Pad) - 1) :
          /\ output[k] = NL
          /\ SubSeq(output, k + 1, k + Len(Pad)) = Pad
          /\ k + Len(Pad) + 1 = Len(output)

\* one call of space(), and the call after it
C28_Step ==
    (pc = "walk" /\ stack # <<>> /\ Top.op = "space") =>
        /\ output' = IF output # <<>> /\ ~at_line_start
                          /\ Last(output) \notin {SP, NL, TAB, "(", "["}
                       THEN output \o <<SP>>
                       ELSE output
        /\ UNCHANGED <<at_line_start, indent_level, last_pos, written_comments>>
        /\ space(space(Formatter)) = space(Formatter)
        /\ Len(space(space(Formatter)).output) <= Len(output) + 1

\* C28 (soft space): space() appends exactly one " " when the output is not
\* empty, at_line_start is false and the last byte of the output is none of
\* " ", "\n", "\t", "(" and "["; otherwise it leaves the output as it is; it
\* never changes at_line_start, indent_level, last_pos or the comment
\* flags; and two calls in a row add at most one space.
C28_SoftSpace == [][C28_Step]_vars

\* space() has been called twice on the output "a": the first call added a
\* space and the second, after that space, added nothing
C28_Witness ==
    /\ pc = "walk"
    /\ called.op = "space"
    /\ stack = <<>>
    /\ output = <<"a", SP>>
    /\ ~at_line_start

\* the calls of the given kind still to be made
Pending(name) == Cardinality({ i \in 1..Len(stack) : stack[i].op = name })

\* C29 (indent level balanced): every rendering operation that raises
\* indent_level (a block that is not simple, a closure, a subexpression, a
\* list or record on several lines, a match block) lowers it again before it
\* returns, so at every point of the walk the level is the number of
\* decrements still to come less the increments still to come; a decrement
\* is never reached at level 0; and the level is 0 when format_inner returns.
C29_IndentBalanced ==
    /\ pc = "walk" =>
         indent_level + Pending("indent_level += 1")
           = Pending("indent_level -= 1")
    /\ Running("indent_level -= 1") => indent_level > 0
    /\ Returned => indent_level = 0

\* a block on several lines inside a match block has just lowered the level
\* from 2 to 1, and the match block's own decrement is still to come
C29_Witness ==
    /\ pc = "walk"
    /\ called.op = "indent_level -= 1"
    /\ indent_level = 1
    /\ Pending("indent_level -= 1") = 1
    /\ \E i \in 1..Len(stack) : stack[i].op = "write" /\ stack[i].s = <<"}">>

\* C30 (configuration): the result of format_inner depends on the
\* configuration only through indent: a second call on the same source under
\* a configuration with the same indent and another line_length or margin
\* returns what the first call returned, the same bytes or the same error.
C30_OnlyIndent ==
    (pc = "done" /\ pass = 1 /\ first_result # None) =>
        first_result = [result |-> result, output |-> output]

\* both calls have returned an output with an indented line that is longer
\* than the second call's line_length
C30_Witness ==
    /\ pc = "done"
    /\ pass = 1
    /\ first_result # None
    /\ result = "Ok"
    /\ line_length = 1
    /\ \E i \in 1..(Len(output) - 2) :
          output[i] = NL /\ output[i + 1] = SP /\ output[i + 2] # NL

=============================================================================
